---- MODULE Spec2Model ----
(***************************************************************************)
(* State-machine model of the VCPToolBox connection hub and RPC broker     *)
(* (src/WebSocketServer.js): the upgrade router, the three connection      *)
(* registries, the distributed-tool registration messages, the two         *)
(* pending-request tables with their timers, and the outbound primitives.  *)
(*                                                                         *)
(* Identifiers are pairs <<tag, n>>: <<"id", n>> is the n-th value         *)
(* returned by generateClientId, <<"dist", n>> the server ID built from    *)
(* it, <<"cc", n>> a request ID chosen by a caller, <<"name", n>> a        *)
(* display name reported by a distributed server.  A socket object is      *)
(* named by the number n of its client ID.                                 *)
(***************************************************************************)
EXTENDS Integers, Sequences, FiniteSets, TLC

\* ------------------------------------------------------------------ bounds
\* at most MaxSockets upgrade requests are accepted
MaxSockets == 2
\* at most MaxCalls promises are pending at a time, and at most MaxCalls request
\* IDs are generated
MaxCalls == 2
\* in SpecRpc the first MaxPeers upgrade requests connect the peers of the requests
MaxPeers == 1
\* no timer is armed with a deadline after MaxTime (milliseconds)
MaxTime == 10000

\* ------------------------------------------------------- program constants
\* executeDistributedTool: plugin?.communication?.timeout || 60000
DefaultToolTimeout == 60000
\* sendCommandToChrome(commandData, timeout = 10000)
DefaultChromeTimeout == 10000

\* ------------------------------------------------------------ input sets
NULL == "<null>"
NoId == <<"none", 0>>
SecretKey == "k1"
\* the paths of upgrade requests: a prefix and the key after it; "" is the empty
\* key (the regular expressions' (.+) needs one character)
Prefixes == {"/VCPlog/VCP_Key=", "/vcp-distributed-server/VCP_Key=",
             "/vcp-chrome-observer/VCP_Key=", "/other/"}
Paths == [prefix : Prefixes \ {"/other/"}, key : {"k1", "bad"}]
         \cup {[prefix |-> "/other/", key |-> "k1"],
               [prefix |-> "/VCPlog/VCP_Key=", key |-> ""]}
\* config.vcpKey: not set, empty, or the secret
ConfigKeys == {NULL, "", SecretKey}
ClientTypes == {"VCPLog", "DistributedServer", "ChromeObserver"}
\* request IDs a caller of sendCommandToChrome may put into commandData
CallerIds == {<<"cc", 1>>}
DisplayNames == {<<"name", 1>>}
MaxIds == MaxSockets + MaxCalls
\* the timeout argument of a call that gives none
NoTimeout == -1
Payloads == {"p1"}

VARIABLES
    wssInstance,            \* TRUE once initialize() created the server
    vcpKey,                 \* serverConfig.vcpKey
    pluginManager,          \* NULL or "set"
    nextId,                 \* number of the next generateClientId value
    now,                    \* the clock the timers run on (ms)
    ws,                     \* socket objects: n -> [clientType, readyState, ...]
    clients,                \* Map clientId -> ws
    distributedServers,     \* Map serverId -> {ws, tools, serverName}
    chromeObserverClients,  \* Map clientId -> ws
    distributedServerIPs,   \* Map serverId -> ipData
    catalog,                \* the plugin manager's distributed tools: name -> serverId
    pendingToolRequests,    \* Map requestId -> call (resolve, reject, timeout)
    pendingChromeCommands,  \* Map requestId -> call (resolve, reject, timeout)
    calls,                  \* the pending promises returned by the two RPC functions
    settledIds,             \* history: the request IDs of the promises settled so far
    lastOp,                 \* the operation of the last step, its arguments and result
    sent,                   \* the frames the last step sent: <<[to, frame], ...>>
    \* one GeminiLiveProxy session (src/unnamed/part_000)
    upstreamWs,             \* this.upstreamWs: [readyState, closeCall, closeEvent]
    clientWs,               \* this.clientWs: [readyState, closeCall, closeEvent]
    received,               \* the number of 'message' events so far, per socket
    handlers,               \* the handler invocations suspended at an await
    emitted,                \* the frames the two sockets accepted from send(), in order
    rejected,               \* the handler invocations whose promise was rejected
    \* one call of getEmbeddingsBatch (src/EmbeddingUtils.js)
    texts,                  \* the argument
    batches,                \* <<[texts, originalIndices], ...>>
    cursor,                 \* index of the next batch to take (from 0)
    workers,                \* worker -> the batch it awaits (from 1), or 0 once it left
    batchResults,           \* batch -> [vectors, originalIndices], while present
    returned                \* the promise of the call: pending, resolved or rejected

registries == <<clients, distributedServers, chromeObserverClients>>
tables == <<pendingToolRequests, pendingChromeCommands>>
config == <<wssInstance, vcpKey, pluginManager>>
promises == <<calls, settledIds>>
\* the hub's state, and the state of a streaming proxy session
hub == <<wssInstance, vcpKey, pluginManager, nextId, now, ws, clients,
         distributedServers, chromeObserverClients, distributedServerIPs, catalog,
         pendingToolRequests, pendingChromeCommands, calls, settledIds, lastOp, sent>>
session == <<upstreamWs, clientWs, received, handlers, emitted, rejected>>
embedding == <<texts, batches, cursor, workers, batchResults, returned>>
\* what the hub's operations, and what a session's operations, leave alone
others == <<session, embedding>>
outside == <<hub, embedding>>
vars == <<hub, session, embedding>>

\* ---------------------------------------------------------------- helpers
\* JavaScript truthiness of a string-or-null value and of an identifier
Truthy(v) == v \notin {NULL, ""}
TruthyId(id) == id # NoId

Min(S) == CHOOSE x \in S : \A y \in S : x <= y

RECURSIVE Ascending(_)
\* the elements of a finite set of numbers, smallest first
Ascending(S) == IF S = {} THEN <<>> ELSE <<Min(S)>> \o Ascending(S \ {Min(S)})

\* a Map without key k (Map.prototype.delete)
MapDelete(m, k) == [x \in DOMAIN m \ {k} |-> m[x]]
\* a Map with key k set to v (Map.prototype.set)
MapSet(m, k, v) == [x \in DOMAIN m \cup {k} |-> IF x = k THEN v ELSE m[x]]
EmptyMap == [x \in {} |-> NULL]

Range(s) == {s[i] : i \in DOMAIN s}

ClientId(n) == <<"id", n>>
ServerId(n) == <<"dist", n>>

\* generateClientId: the value it returns when called in the current state.
\* Date.now() and Math.random() make the value practically unique; the model
\* takes every returned value to be new.
generateClientId == <<"id", nextId>>

CONNECTING == "CONNECTING"
OPEN == "OPEN"
CLOSING == "CLOSING"
CLOSED == "CLOSED"

TypeOK ==
    /\ wssInstance \in BOOLEAN
    /\ vcpKey \in ConfigKeys
    /\ pluginManager \in {NULL, "set"}
    /\ nextId \in 1..(MaxIds + 1)
    /\ now \in 0..MaxTime
    /\ DOMAIN ws \subseteq 1..MaxIds
    /\ \A n \in DOMAIN ws : ws[n].clientType \in ClientTypes
                            /\ ws[n].readyState \in {OPEN, CLOSING}
    /\ DOMAIN calls \subseteq 1..MaxCalls

\* no streaming connection was opened: no GeminiLiveProxy object exists
NoSession ==
    /\ upstreamWs = NULL
    /\ clientWs = NULL
    /\ received = [upstream |-> 0, client |-> 0]
    /\ handlers = {}
    /\ emitted = <<>>
    /\ rejected = {}

\* getEmbeddingsBatch has not been called
NoEmbedding ==
    /\ texts = <<>>
    /\ batches = <<>>
    /\ cursor = 0
    /\ workers = <<>>
    /\ batchResults = <<>>
    /\ returned = [state |-> "none"]

Init ==
    /\ wssInstance = FALSE
    /\ vcpKey = NULL
    /\ pluginManager = NULL
    /\ nextId = 1
    /\ now = 0
    /\ ws = EmptyMap
    /\ clients = EmptyMap
    /\ distributedServers = EmptyMap
    /\ chromeObserverClients = EmptyMap
    /\ distributedServerIPs = EmptyMap
    /\ catalog = EmptyMap
    /\ pendingToolRequests = EmptyMap
    /\ pendingChromeCommands = EmptyMap
    /\ calls = EmptyMap
    /\ settledIds = {}
    /\ lastOp = [op |-> "load"]
    /\ sent = <<>>
    /\ NoSession
    /\ NoEmbedding

\* initialize(httpServer, config): stores the configuration and creates the server
initialize(configKey) ==
    /\ ~wssInstance
    /\ wssInstance' = TRUE
    /\ vcpKey' = configKey
    /\ lastOp' = [op |-> "initialize"]
    /\ sent' = <<>>
    /\ UNCHANGED <<pluginManager, nextId, now, ws, registries,
                   distributedServerIPs, catalog, tables, promises>>

\* setPluginManager(pm)
setPluginManager ==
    /\ pluginManager = NULL
    /\ pluginManager' = "set"
    /\ lastOp' = [op |-> "setPluginManager"]
    /\ sent' = <<>>
    /\ UNCHANGED <<wssInstance, vcpKey, nextId, now, ws, registries,
                   distributedServerIPs, catalog, tables, promises>>

\* ------------------------------------------------------- upgrade router
\* the client type whose path template matches, NULL when none does
\* (the three regular expressions of the upgrade handler; (.+) needs a key)
PathClientType(path) ==
    IF path.key = "" THEN NULL
    ELSE IF path.prefix = "/VCPlog/VCP_Key=" THEN "VCPLog"
    ELSE IF path.prefix = "/vcp-distributed-server/VCP_Key=" THEN "DistributedServer"
    ELSE IF path.prefix = "/vcp-chrome-observer/VCP_Key=" THEN "ChromeObserver"
    ELSE NULL

\* a variant of IsAuthenticated that does not compare the key (C7 tells it apart)
IsAuthenticatedAnyKey(path) == Truthy(vcpKey)

\* a variant of IsAuthenticated that admits every key while no secret is configured
IsAuthenticatedUnlessUnset(path) == ~Truthy(vcpKey) \/ path.key = vcpKey

\* serverConfig.vcpKey && connectionKey === serverConfig.vcpKey
IsAuthenticated(path) == Truthy(vcpKey) /\ path.key = vcpKey

NewSocket(type, key) ==
    [clientType |-> type, readyState |-> OPEN, errored |-> FALSE, key |-> key]

\* a variant of ConnectionFrames that acknowledges every connection
ConnectionFramesForAll(n, type) ==
    <<[to |-> n, frame |-> [type |-> "connection_ack"]]>>

\* the frame the 'connection' handler sends to a new socket of this type
ConnectionFrames(n, type) ==
    IF type = "VCPLog" THEN <<[to |-> n, frame |-> [type |-> "connection_ack"]]>>
    ELSE <<>>

\* a variant of RegisterConnection that also stores a distributed server in the
\* generic clients Map (C6 tells it apart)
RegisterConnectionAlsoClient(n, type, key) ==
    /\ ws' = MapSet(ws, n, NewSocket(type, key))
    /\ IF type = "DistributedServer"
       THEN /\ distributedServers' = MapSet(distributedServers, ServerId(n),
                    [ws |-> n, tools |-> <<>>, serverName |-> NoId])
            /\ clients' = MapSet(clients, ClientId(n), n)
            /\ UNCHANGED chromeObserverClients
       ELSE IF type = "ChromeObserver"
       THEN /\ chromeObserverClients' = MapSet(chromeObserverClients, ClientId(n), n)
            /\ UNCHANGED <<clients, distributedServers>>
       ELSE /\ clients' = MapSet(clients, ClientId(n), n)
            /\ UNCHANGED <<distributedServers, chromeObserverClients>>
    /\ sent' = ConnectionFrames(n, type)

\* the handleUpgrade callback: the socket gets its ID and goes into the registry
\* of its client type, then the 'connection' event is emitted
RegisterConnection(n, type, key) ==
    /\ ws' = MapSet(ws, n, NewSocket(type, key))
    /\ IF type = "DistributedServer"
       THEN /\ distributedServers' = MapSet(distributedServers, ServerId(n),
                    [ws |-> n, tools |-> <<>>, serverName |-> NoId])
            /\ UNCHANGED <<clients, chromeObserverClients>>
       ELSE IF type = "ChromeObserver"
       THEN /\ chromeObserverClients' = MapSet(chromeObserverClients, ClientId(n), n)
            /\ UNCHANGED <<clients, distributedServers>>
       ELSE /\ clients' = MapSet(clients, ClientId(n), n)
            /\ UNCHANGED <<distributedServers, chromeObserverClients>>
    /\ sent' = ConnectionFrames(n, type)

\* httpServer.on('upgrade'): one upgrade request with the given path
Upgrade(path) ==
    /\ wssInstance
    /\ LET type == PathClientType(path) IN
       IF type = NULL \/ ~IsAuthenticated(path)
       THEN \* socket.destroy(); return
            /\ lastOp' = [op |-> "upgrade", result |-> "destroyed"]
            /\ sent' = <<>>
            /\ UNCHANGED <<nextId, ws, registries>>
       ELSE /\ nextId <= MaxSockets
            /\ nextId' = nextId + 1
            /\ IF type = "ChromeObserver" /\ pluginManager = NULL
               THEN \* pluginManager.getServiceModule throws before the socket is stored
                    /\ lastOp' = [op |-> "upgrade", result |-> "threw"]
                    /\ sent' = <<>>
                    /\ UNCHANGED <<ws, registries>>
               ELSE /\ RegisterConnection(nextId, type, path.key)
                    /\ lastOp' = [op |-> "upgrade", result |-> "accepted"]
    /\ UNCHANGED <<config, now, distributedServerIPs, catalog, tables, promises>>

\* ------------------------------------------------------- inbound frames
\* A frame is either not parseable (JSON.parse throws) or a parsed object with a
\* type and, when hasData, a data object holding the fields its type uses.
Unparseable == [parsed |-> FALSE, type |-> NULL, hasData |-> FALSE, requestId |-> NoId,
                status |-> NULL, tools |-> <<>>, serverName |-> NoId]
Frame(type, hasData, requestId, status, tools, serverName) ==
    [parsed |-> TRUE, type |-> type, hasData |-> hasData, requestId |-> requestId,
     status |-> status, tools |-> tools, serverName |-> serverName]

\* the request IDs a reply may carry: those of the pending requests, the callers'
\* own, and the ID generated last (of a request already settled, or of a socket)
ReplyIds == {calls[k].requestId : k \in DOMAIN calls} \cup CallerIds \cup {<<"id", nextId - 1>>}

\* frames without a data object, and the frame that is not JSON
BadFrames ==
    {Unparseable}
    \cup {Frame(t, FALSE, NoId, NULL, <<>>, NoId) :
            t \in {"register_tools", "report_ip", "tool_result", "command_result"}}
OtherFrames == {Frame("other", TRUE, NoId, NULL, <<>>, NoId)}
RegisterFrames(lists) == {Frame("register_tools", TRUE, NoId, NULL, l, NoId) : l \in lists}
ReportFrames(names) == {Frame("report_ip", TRUE, NoId, NULL, <<>>, nm) : nm \in names}
ReplyFrames(ids) ==
    {Frame(t, TRUE, id, st, <<>>, NoId) :
        t \in {"tool_result", "command_result"}, id \in ids, st \in {"success", "error"}}

\* ------------------------------------------------------- promises, timers
\* calls holds the requests whose promise is still pending, each in a slot: the
\* resolve and reject functions and the timer handle of one `new Promise`.  A table
\* entry names the slot whose functions it stores.  A step that settles a promise
\* reports it in lastOp.settled and frees the slot.
NewCall(chan, requestId, timeoutMs, tool) ==
    [chan |-> chan, requestId |-> requestId, deadline |-> now + timeoutMs,
     timeoutMs |-> timeoutMs, toolName |-> tool]

FreeSlots == (1..MaxCalls) \ DOMAIN calls
\* the timers the model arms: any timer armed at time 0, and later ones whose
\* deadline is not after MaxTime
WithinHorizon(deadline) == now = 0 \/ deadline <= MaxTime

\* a variant of Settlement whose timeout error gives milliseconds (C3 tells it apart)
SettlementInMilliseconds(c, outcome, error) ==
    [requestId |-> c.requestId, chan |-> c.chan, outcome |-> outcome, error |-> error,
     toolName |-> IF error = "timeout" THEN c.toolName ELSE NULL,
     seconds |-> IF error = "timeout" THEN c.timeoutMs ELSE 0]

\* what the caller's promise is settled with.  A timeout error names the tool
\* (tool channel) and timeout / 1000 seconds
Settlement(c, outcome, error) ==
    [requestId |-> c.requestId, chan |-> c.chan, outcome |-> outcome, error |-> error,
     toolName |-> IF error = "timeout" THEN c.toolName ELSE NULL,
     seconds |-> IF error = "timeout" THEN c.timeoutMs \div 1000 ELSE 0]

\* a matching *_result for the table entry of slot k: clearTimeout(pending.timeout),
\* then resolve on status 'success', reject otherwise
ReplySettlement(k, status) ==
    Settlement(calls[k], IF status = "success" THEN "resolved" ELSE "rejected",
               IF status = "success" THEN "none" ELSE "remote")

NoSettlement == [requestId |-> NoId, chan |-> NULL, outcome |-> "none", error |-> "none",
                 toolName |-> NULL, seconds |-> 0]

\* ------------------------------------------------ the plugin manager's catalog
\* pluginManager.registerDistributedTools(serverId, tools): merges the tools into
\* the catalog; a name already in the catalog keeps its owner
registerDistributedTools(cat, serverId, tools) ==
    [t \in DOMAIN cat \cup Range(tools) |-> IF t \in DOMAIN cat THEN cat[t] ELSE serverId]

\* pluginManager.unregisterAllDistributedTools(serverId)
unregisterAllDistributedTools(cat, serverId) ==
    [t \in {x \in DOMAIN cat : cat[x] # serverId} |-> cat[t]]

\* ------------------------------------------------ distributed-server protocol
IsExternalTool(t) == t # "internal_request_file"

\* a variant of RegisterTools that appends the tools to the stored list
RegisterToolsAppending(serverId, m) ==
    /\ IF serverId \in DOMAIN distributedServers /\ m.hasData
       THEN LET externalTools == SelectSeq(m.tools, IsExternalTool) IN
            /\ catalog' = registerDistributedTools(catalog, serverId, externalTools)
            /\ distributedServers' =
                   [distributedServers EXCEPT
                       ![serverId].tools = distributedServers[serverId].tools \o externalTools]
       ELSE UNCHANGED <<catalog, distributedServers>>
    /\ UNCHANGED <<distributedServerIPs, pendingToolRequests, promises>>

\* case 'register_tools'
RegisterTools(serverId, m) ==
    /\ IF serverId \in DOMAIN distributedServers /\ m.hasData
       THEN LET externalTools == SelectSeq(m.tools, IsExternalTool) IN
            /\ catalog' = registerDistributedTools(catalog, serverId, externalTools)
            /\ distributedServers' =
                   [distributedServers EXCEPT ![serverId].tools = externalTools]
       ELSE UNCHANGED <<catalog, distributedServers>>
    /\ UNCHANGED <<distributedServerIPs, pendingToolRequests, promises>>

\* a variant of ReportIp that takes a missing data object for an empty one
ReportIpWithoutData(serverId, m) ==
    /\ IF serverId \in DOMAIN distributedServers
       THEN LET ipData == [localIPs |-> <<>>, publicIP |-> NULL,
                           serverName |-> IF TruthyId(m.serverName) THEN m.serverName
                                          ELSE serverId] IN
            /\ distributedServerIPs' = MapSet(distributedServerIPs, serverId, ipData)
            /\ distributedServers' =
                   [distributedServers EXCEPT ![serverId].serverName = ipData.serverName]
       ELSE UNCHANGED <<distributedServerIPs, distributedServers>>
    /\ UNCHANGED <<catalog, pendingToolRequests, promises>>

\* case 'report_ip'
ReportIp(serverId, m) ==
    /\ IF serverId \in DOMAIN distributedServers /\ m.hasData
       THEN LET ipData == [localIPs |-> IF "localIPs" \in DOMAIN m THEN m.localIPs ELSE <<>>,
                           publicIP |-> IF "publicIP" \in DOMAIN m THEN m.publicIP
                                        ELSE NULL,
                           serverName |-> IF TruthyId(m.serverName) THEN m.serverName
                                          ELSE serverId] IN
            /\ distributedServerIPs' = MapSet(distributedServerIPs, serverId, ipData)
            /\ distributedServers' =
                   [distributedServers EXCEPT ![serverId].serverName = ipData.serverName]
       ELSE UNCHANGED <<distributedServerIPs, distributedServers>>
    /\ UNCHANGED <<catalog, pendingToolRequests, promises>>

\* case 'tool_result' (message.data exists)
ToolResult(m) ==
    /\ IF m.requestId \in DOMAIN pendingToolRequests
       THEN /\ calls' = MapDelete(calls, pendingToolRequests[m.requestId])
            /\ settledIds' = settledIds \cup {m.requestId}
            /\ pendingToolRequests' = MapDelete(pendingToolRequests, m.requestId)
       ELSE UNCHANGED <<promises, pendingToolRequests>>
    /\ UNCHANGED <<catalog, distributedServers, distributedServerIPs>>

\* handleDistributedServerMessage throws on a tool_result without data
\* (message.data.requestId of undefined)
DistributedMessageThrows(m) ==
    pluginManager # NULL /\ m.type = "tool_result" /\ ~m.hasData

\* a variant of handleDistributedServerMessage that takes a tool_result only from the
\* first server, the one SpecReplies sends its requests to
handleDistributedServerMessageFromTarget(serverId, m) ==
    IF pluginManager = NULL \/ DistributedMessageThrows(m)
    THEN UNCHANGED <<catalog, distributedServers, distributedServerIPs,
                     pendingToolRequests, promises>>
    ELSE IF m.type = "register_tools" THEN RegisterTools(serverId, m)
    ELSE IF m.type = "report_ip" THEN ReportIp(serverId, m)
    ELSE IF m.type = "tool_result" /\ serverId = ServerId(1) THEN ToolResult(m)
    ELSE UNCHANGED <<catalog, distributedServers, distributedServerIPs,
                     pendingToolRequests, promises>>

handleDistributedServerMessage(serverId, m) ==
    IF pluginManager = NULL \/ DistributedMessageThrows(m)
    THEN UNCHANGED <<catalog, distributedServers, distributedServerIPs,
                     pendingToolRequests, promises>>
    ELSE IF m.type = "register_tools" THEN RegisterTools(serverId, m)
    ELSE IF m.type = "report_ip" THEN ReportIp(serverId, m)
    ELSE IF m.type = "tool_result" THEN ToolResult(m)
    ELSE UNCHANGED <<catalog, distributedServers, distributedServerIPs,
                     pendingToolRequests, promises>>

\* --------------------------------------------------- browser-observer protocol
\* a variant of IsCommandResult that does not look at the request ID
IsCommandResultAnyId(m) == m.type = "command_result" /\ m.hasData
\* type === 'command_result' && data && data.requestId
IsCommandResult(m) == m.type = "command_result" /\ m.hasData /\ TruthyId(m.requestId)

CommandResult(m) ==
    IF m.requestId \in DOMAIN pendingChromeCommands
    THEN /\ calls' = MapDelete(calls, pendingChromeCommands[m.requestId])
         /\ settledIds' = settledIds \cup {m.requestId}
         /\ pendingChromeCommands' = MapDelete(pendingChromeCommands, m.requestId)
    ELSE UNCHANGED <<promises, pendingChromeCommands>>

\* what the handler did with a frame: "caught" (an exception, logged in the catch
\* block), "settled" or "no pending" (a *_result looked up in its table), "forwarded"
\* (handed to the ChromeObserver module), "handled", "ignored"
MessageOutcome(n, m) ==
    IF ~m.parsed THEN "caught"
    ELSE IF ws[n].clientType = "DistributedServer"
         THEN IF DistributedMessageThrows(m) THEN "caught"
              ELSE IF pluginManager = NULL THEN "ignored"
              ELSE IF m.type = "tool_result"
                   THEN IF m.requestId \in DOMAIN pendingToolRequests
                        THEN "settled" ELSE "no pending"
              ELSE "handled"
    ELSE IF ws[n].clientType = "ChromeObserver"
         THEN IF IsCommandResult(m)
              THEN IF m.requestId \in DOMAIN pendingChromeCommands
                   THEN "settled" ELSE "no pending"
              ELSE IF pluginManager = NULL THEN "caught"
              ELSE "forwarded"
    ELSE "ignored"

\* the promise a frame settles (NoSettlement when it settles none; resolve and
\* reject of a promise that is settled already do nothing)
MessageSettlement(n, m) ==
    LET k == IF ws[n].clientType = "DistributedServer"
             THEN pendingToolRequests[m.requestId]
             ELSE pendingChromeCommands[m.requestId] IN
    IF MessageOutcome(n, m) # "settled" THEN NoSettlement
    ELSE IF k \notin DOMAIN calls THEN NoSettlement
    ELSE ReplySettlement(k, m.status)

\* ws.on('message'): one inbound frame m on socket n
OnMessage(n, m) ==
    /\ n \in DOMAIN ws
    /\ ~ws[n].errored
    /\ IF ~m.parsed
       THEN UNCHANGED <<catalog, distributedServers, distributedServerIPs, tables, promises>>
       ELSE IF ws[n].clientType = "DistributedServer"
       THEN /\ handleDistributedServerMessage(ServerId(n), m)
            /\ UNCHANGED pendingChromeCommands
       ELSE IF ws[n].clientType = "ChromeObserver" /\ IsCommandResult(m)
       THEN /\ CommandResult(m)
            /\ UNCHANGED <<catalog, distributedServers, distributedServerIPs,
                           pendingToolRequests>>
       ELSE UNCHANGED <<catalog, distributedServers, distributedServerIPs, tables, promises>>
    /\ lastOp' = LET op == [op |-> "message", requestId |-> m.requestId,
                            outcome |-> MessageOutcome(n, m), escaped |-> FALSE,
                            settled |-> MessageSettlement(n, m)] IN
                 \* chromeObserverModule.handleClientMessage(ws.clientId, parsedMessage)
                 IF MessageOutcome(n, m) = "forwarded"
                 THEN op @@ [clientId |-> ClientId(n)]
                 ELSE op
    /\ sent' = <<>>
    /\ UNCHANGED <<config, nextId, now, ws, clients, chromeObserverClients>>

\* ------------------------------------------------------- close and error
\* a socket starts closing: the peer sent a close frame, or shutdown() called
\* client.close(); the 'close' event follows later
BeginClose(n) ==
    /\ n \in DOMAIN ws
    /\ ws[n].readyState = OPEN
    /\ ws' = [ws EXCEPT ![n].readyState = CLOSING]
    /\ lastOp' = [op |-> "closing"]
    /\ sent' = <<>>
    /\ UNCHANGED <<config, nextId, now, registries, distributedServerIPs, catalog,
                   tables, promises>>

\* a variant of CloseHandler that leaves the closed server's tools in the catalog
\* (C4 tells it apart)
CloseHandlerKeepsTools(n) ==
    IF ws[n].clientType = "DistributedServer"
    THEN /\ distributedServers' = MapDelete(distributedServers, ServerId(n))
         /\ distributedServerIPs' = MapDelete(distributedServerIPs, ServerId(n))
         /\ UNCHANGED <<clients, chromeObserverClients, catalog>>
    ELSE IF ws[n].clientType = "ChromeObserver"
    THEN /\ chromeObserverClients' = MapDelete(chromeObserverClients, ClientId(n))
         /\ UNCHANGED <<clients, distributedServers, distributedServerIPs, catalog>>
    ELSE /\ clients' = MapDelete(clients, ClientId(n))
         /\ UNCHANGED <<chromeObserverClients, distributedServers, distributedServerIPs,
                        catalog>>

\* a variant of CloseHandler that deregisters the tools of the server's stored list
CloseHandlerByStoredList(n) ==
    IF ws[n].clientType = "DistributedServer"
    THEN /\ catalog' =
              IF pluginManager # NULL /\ ServerId(n) \in DOMAIN distributedServers
              THEN [t \in DOMAIN catalog \ Range(distributedServers[ServerId(n)].tools)
                      |-> catalog[t]]
              ELSE catalog
         /\ distributedServers' = MapDelete(distributedServers, ServerId(n))
         /\ distributedServerIPs' = MapDelete(distributedServerIPs, ServerId(n))
         /\ UNCHANGED <<clients, chromeObserverClients>>
    ELSE IF ws[n].clientType = "ChromeObserver"
    THEN /\ chromeObserverClients' = MapDelete(chromeObserverClients, ClientId(n))
         /\ UNCHANGED <<clients, distributedServers, distributedServerIPs, catalog>>
    ELSE /\ clients' = MapDelete(clients, ClientId(n))
         /\ UNCHANGED <<chromeObserverClients, distributedServers, distributedServerIPs,
                        catalog>>

\* a variant of CloseHandler that leaves the closed server's IP record in place
CloseHandlerKeepsIps(n) ==
    IF ws[n].clientType = "DistributedServer"
    THEN /\ catalog' = IF pluginManager # NULL
                       THEN unregisterAllDistributedTools(catalog, ServerId(n))
                       ELSE catalog
         /\ distributedServers' = MapDelete(distributedServers, ServerId(n))
         /\ UNCHANGED <<clients, chromeObserverClients, distributedServerIPs>>
    ELSE IF ws[n].clientType = "ChromeObserver"
    THEN /\ chromeObserverClients' = MapDelete(chromeObserverClients, ClientId(n))
         /\ UNCHANGED <<clients, distributedServers, distributedServerIPs, catalog>>
    ELSE /\ clients' = MapDelete(clients, ClientId(n))
         /\ UNCHANGED <<chromeObserverClients, distributedServers, distributedServerIPs,
                        catalog>>

\* the body of ws.on('close') for socket n
CloseHandler(n) ==
    IF ws[n].clientType = "DistributedServer"
    THEN /\ catalog' = IF pluginManager # NULL
                       THEN unregisterAllDistributedTools(catalog, ServerId(n))
                       ELSE catalog
         /\ distributedServers' = MapDelete(distributedServers, ServerId(n))
         /\ distributedServerIPs' = MapDelete(distributedServerIPs, ServerId(n))
         /\ UNCHANGED <<clients, chromeObserverClients>>
    ELSE IF ws[n].clientType = "ChromeObserver"
    THEN /\ chromeObserverClients' = MapDelete(chromeObserverClients, ClientId(n))
         /\ UNCHANGED <<clients, distributedServers, distributedServerIPs, catalog>>
    ELSE /\ clients' = MapDelete(clients, ClientId(n))
         /\ UNCHANGED <<chromeObserverClients, distributedServers, distributedServerIPs,
                        catalog>>

\* the registry entry of the server a 'close' event removes: its display name and
\* tool list (NoServer when the socket is no distributed server's)
NoServer == [serverName |-> NoId, tools |-> <<>>]
ClosedServer(n) ==
    IF ServerId(n) \in DOMAIN distributedServers
    THEN [serverName |-> distributedServers[ServerId(n)].serverName,
          tools |-> distributedServers[ServerId(n)].tools]
    ELSE NoServer

\* a variant of OnClose that drops the pending requests when a peer closes
OnCloseDropsPending(n) ==
    /\ n \in DOMAIN ws
    /\ ws' = MapDelete(ws, n)
    /\ CloseHandler(n)
    /\ lastOp' = [op |-> "close", closed |-> ClosedServer(n)]
    /\ sent' = <<>>
    /\ pendingToolRequests' = EmptyMap
    /\ pendingChromeCommands' = EmptyMap
    /\ calls' = EmptyMap
    /\ UNCHANGED <<config, nextId, now, settledIds>>

\* socket n emits 'close': the handler runs and the socket object is gone
OnClose(n) ==
    /\ n \in DOMAIN ws
    /\ ws' = MapDelete(ws, n)
    /\ CloseHandler(n)
    /\ lastOp' = [op |-> "close", closed |-> ClosedServer(n)]
    /\ sent' = <<>>
    /\ UNCHANGED <<config, nextId, now, tables, promises>>

\* the body of ws.on('error') for socket n: if (ws.clientId) clients.delete(ws.clientId)
ErrorHandler(n) ==
    /\ clients' = MapDelete(clients, ClientId(n))
    /\ UNCHANGED <<chromeObserverClients, distributedServers, distributedServerIPs, catalog>>

\* socket n emits 'error'; the socket is then on its way to 'close'
OnError(n) ==
    /\ n \in DOMAIN ws
    /\ ~ws[n].errored
    /\ ws' = [ws EXCEPT ![n].readyState = CLOSING, ![n].errored = TRUE]
    /\ ErrorHandler(n)
    /\ lastOp' = [op |-> "error"]
    /\ sent' = <<>>
    /\ UNCHANGED <<config, nextId, now, tables, promises>>

\* ------------------------------------------------------- outbound primitives
\* the sockets a Map of client IDs holds, in insertion order (IDs grow)
SocketsOf(m) == Ascending({m[k] : k \in DOMAIN m})
ServerSockets == Ascending({distributedServers[s].ws : s \in DOMAIN distributedServers})

\* clientsToBroadcast: new Map([...clients, ...distributedServers' sockets]),
\* keyed by client ID
ClientsToBroadcast ==
    LET NotAClient(n) == ClientId(n) \notin DOMAIN clients IN
    SocketsOf(clients) \o SelectSeq(ServerSockets, NotAClient)

\* a variant of BroadcastTarget without the type filter (C8 tells it apart)
BroadcastTargetUnfiltered(n, targetClientType) == ws[n].readyState = OPEN

\* the filter of the forEach body in broadcast
BroadcastTarget(n, targetClientType) ==
    /\ ws[n].readyState = OPEN
    /\ (targetClientType = NULL \/ ws[n].clientType = targetClientType)

RECURSIVE FramesTo(_, _)
FramesTo(targets, frame) ==
    IF targets = <<>> THEN <<>>
    ELSE <<[to |-> Head(targets), frame |-> frame]>> \o FramesTo(Tail(targets), frame)

\* broadcast(data, targetClientType = null)
broadcast(data, targetClientType) ==
    /\ sent' = IF ~wssInstance THEN <<>>
               ELSE LET Pick(n) == BroadcastTarget(n, targetClientType) IN
                    FramesTo(SelectSeq(ClientsToBroadcast, Pick),
                             [type |-> "payload", data |-> data])
    /\ lastOp' = [op |-> "broadcast", target |-> targetClientType]
    /\ UNCHANGED <<config, nextId, now, ws, registries, distributedServerIPs, catalog,
                   tables, promises>>

\* a variant of FindClient that does not look among the browser observers
\* (C9 tells it apart)
FindClientNoObservers(clientId) ==
    IF clientId \in DOMAIN clients THEN clients[clientId]
    ELSE IF \E s \in DOMAIN distributedServers :
                ClientId(distributedServers[s].ws) = clientId
    THEN distributedServers[CHOOSE s \in DOMAIN distributedServers :
                ClientId(distributedServers[s].ws) = clientId].ws
    ELSE 0

\* clients.get(id) || (distributedServers' entry whose ws.clientId is id).ws
\*   || chromeObserverClients.get(id); 0 when there is none
FindClient(clientId) ==
    IF clientId \in DOMAIN clients THEN clients[clientId]
    ELSE IF \E s \in DOMAIN distributedServers :
                ClientId(distributedServers[s].ws) = clientId
    THEN distributedServers[CHOOSE s \in DOMAIN distributedServers :
                ClientId(distributedServers[s].ws) = clientId].ws
    ELSE IF clientId \in DOMAIN chromeObserverClients THEN chromeObserverClients[clientId]
    ELSE 0

\* sendMessageToClient(clientId, data)
sendMessageToClient(clientId, data) ==
    /\ LET clientSocket == FindClient(clientId)
           ok == clientSocket # 0 /\ ws[clientSocket].readyState = OPEN IN
       /\ sent' = IF ok THEN <<[to |-> clientSocket,
                               frame |-> [type |-> "payload", data |-> data]]>>
                  ELSE <<>>
       /\ lastOp' = [op |-> "sendMessageToClient", clientId |-> clientId,
                     returned |-> ok, threw |-> FALSE]
    /\ UNCHANGED <<config, nextId, now, ws, registries, distributedServerIPs, catalog,
                   tables, promises>>

\* ------------------------------------------------------- RPC brokering
\* Array.from(chromeObserverClients.values())[0]; 0 when the Map is empty
FirstObserver ==
    IF DOMAIN chromeObserverClients = {} THEN 0
    ELSE Head(SocketsOf(chromeObserverClients))

\* a variant of sendCommandToChrome that does not test the observer's readyState
\* (C10 tells it apart)
sendCommandToChromeUnchecked(suppliedId, timeout) ==
    /\ LET observerClient == FirstObserver
           effectiveTimeout == IF timeout = NoTimeout THEN DefaultChromeTimeout ELSE timeout
           requestId == IF TruthyId(suppliedId) THEN suppliedId ELSE generateClientId
           k == Min(FreeSlots) IN
       IF observerClient = 0
       THEN /\ lastOp' = [op |-> "sendCommandToChrome", result |-> "rejected",
                          error |-> "not connected"]
            /\ sent' = <<>>
            /\ UNCHANGED <<nextId, pendingChromeCommands, promises>>
       ELSE /\ FreeSlots # {}
            /\ WithinHorizon(now + effectiveTimeout)
            /\ TruthyId(suppliedId) \/ nextId <= MaxIds
            /\ nextId' = IF TruthyId(suppliedId) THEN nextId ELSE nextId + 1
            /\ calls' = MapSet(calls, k, NewCall("chrome", requestId, effectiveTimeout,
                                                  NULL))
            /\ UNCHANGED settledIds
            /\ pendingChromeCommands' = MapSet(pendingChromeCommands, requestId, k)
            /\ sent' = <<[to |-> observerClient,
                          frame |-> [type |-> "command", requestId |-> requestId]]>>
            /\ lastOp' = [op |-> "sendCommandToChrome", result |-> "pending",
                          error |-> "none"]
    /\ UNCHANGED <<config, now, ws, registries, distributedServerIPs, catalog,
                   pendingToolRequests>>

\* sendCommandToChrome(commandData, timeout = 10000); suppliedId is
\* commandData.requestId (NoId when the caller gave none)
sendCommandToChrome(suppliedId, timeout) ==
    /\ LET observerClient == FirstObserver
           effectiveTimeout == IF timeout = NoTimeout THEN DefaultChromeTimeout ELSE timeout
           requestId == IF TruthyId(suppliedId) THEN suppliedId ELSE generateClientId
           k == Min(FreeSlots) IN
       IF observerClient = 0 \/ ws[observerClient].readyState # OPEN
       THEN \* throw new Error('Chrome extension is not connected.')
            /\ lastOp' = [op |-> "sendCommandToChrome", result |-> "rejected",
                          error |-> "not connected"]
            /\ sent' = <<>>
            /\ UNCHANGED <<nextId, pendingChromeCommands, promises>>
       ELSE /\ FreeSlots # {}
            /\ WithinHorizon(now + effectiveTimeout)
            /\ TruthyId(suppliedId) \/ nextId <= MaxIds
            /\ nextId' = IF TruthyId(suppliedId) THEN nextId ELSE nextId + 1
            /\ calls' = MapSet(calls, k, NewCall("chrome", requestId, effectiveTimeout,
                                                  NULL))
            /\ UNCHANGED settledIds
            /\ pendingChromeCommands' = MapSet(pendingChromeCommands, requestId, k)
            /\ sent' = <<[to |-> observerClient,
                          frame |-> [type |-> "command", requestId |-> requestId]]>>
            /\ lastOp' = [op |-> "sendCommandToChrome", result |-> "pending",
                          error |-> "none"]
    /\ UNCHANGED <<config, now, ws, registries, distributedServerIPs, catalog,
                   pendingToolRequests>>

\* a variant of ResolveServer that looks for the display name first
ResolveServerByNameFirst(serverIdOrName) ==
    LET named == {distributedServers[s].ws : s \in
                    {x \in DOMAIN distributedServers :
                       distributedServers[x].serverName = serverIdOrName}} IN
    IF named # {} THEN ServerId(Min(named))
    ELSE IF serverIdOrName \in DOMAIN distributedServers THEN serverIdOrName
    ELSE NoId

\* the lookup of executeDistributedTool: by ID first, then the first server (in
\* Map order) whose serverName is the argument; NoId when there is none
ResolveServer(serverIdOrName) ==
    IF serverIdOrName \in DOMAIN distributedServers THEN serverIdOrName
    ELSE LET named == {distributedServers[s].ws : s \in
                         {x \in DOMAIN distributedServers :
                            distributedServers[x].serverName = serverIdOrName}} IN
         IF named = {} THEN NoId ELSE ServerId(Min(named))

\* a variant of EffectiveToolTimeout in which the manifest's timeout comes first
EffectiveToolTimeoutManifestFirst(manifestTimeout, timeout) ==
    IF manifestTimeout # 0 THEN manifestTimeout
    ELSE IF timeout = NoTimeout THEN DefaultToolTimeout ELSE timeout

\* plugin?.communication?.timeout || 60000, then timeout ?? defaultTimeout
EffectiveToolTimeout(manifestTimeout, timeout) ==
    LET defaultTimeout == IF manifestTimeout # 0 THEN manifestTimeout
                          ELSE DefaultToolTimeout IN
    IF timeout = NoTimeout THEN defaultTimeout ELSE timeout

\* executeDistributedTool(serverIdOrName, toolName, toolArgs, timeout);
\* manifestTimeout is what pluginManager.getPlugin(toolName) declares
executeDistributedTool(serverIdOrName, toolName, manifestTimeout, timeout) ==
    /\ LET server == ResolveServer(serverIdOrName)
           effectiveTimeout == EffectiveToolTimeout(manifestTimeout, timeout)
           k == Min(FreeSlots)
           op == [op |-> "executeDistributedTool"] IN
       IF pluginManager = NULL
       THEN \* pluginManager.getPlugin of null: the async function rejects
            /\ lastOp' = op @@ [result |-> "rejected", error |-> "TypeError"]
            /\ sent' = <<>>
            /\ UNCHANGED <<nextId, pendingToolRequests, promises>>
       ELSE IF server = NoId \/ ws[distributedServers[server].ws].readyState # OPEN
       THEN \* throw new Error(`Distributed server ... is not connected or ready.`)
            /\ lastOp' = op @@ [result |-> "rejected", error |-> "not connected or ready"]
            /\ sent' = <<>>
            /\ UNCHANGED <<nextId, pendingToolRequests, promises>>
       ELSE /\ FreeSlots # {}
            /\ WithinHorizon(now + effectiveTimeout)
            /\ nextId <= MaxIds
            /\ nextId' = nextId + 1
            /\ calls' = MapSet(calls, k, NewCall("tool", generateClientId, effectiveTimeout,
                                                  toolName))
            /\ UNCHANGED settledIds
            /\ pendingToolRequests' = MapSet(pendingToolRequests, generateClientId, k)
            /\ sent' = <<[to |-> distributedServers[server].ws,
                          frame |-> [type |-> "execute_tool",
                                     requestId |-> generateClientId,
                                     toolName |-> toolName]]>>
            /\ lastOp' = op @@ [result |-> "pending", error |-> "none"]
    /\ UNCHANGED <<config, now, ws, registries, distributedServerIPs, catalog,
                   pendingChromeCommands>>

\* a variant of TimerExpire that leaves the table entry in place (C1 tells it apart)
TimerExpireKeepsEntry(k) ==
    /\ k \in DOMAIN calls
    /\ now >= calls[k].deadline
    /\ calls' = MapDelete(calls, k)
    /\ settledIds' = settledIds \cup {calls[k].requestId}
    /\ lastOp' = [op |-> "timeout", settled |-> Settlement(calls[k], "rejected", "timeout")]
    /\ sent' = <<>>
    /\ UNCHANGED <<config, nextId, now, ws, registries, distributedServerIPs, catalog,
                   tables>>

\* the setTimeout callback of the call in slot k: delete the table entry of its
\* request ID, reject with the timeout error
TimerExpire(k) ==
    /\ k \in DOMAIN calls
    /\ now >= calls[k].deadline
    /\ IF calls[k].chan = "tool"
       THEN /\ pendingToolRequests' = MapDelete(pendingToolRequests, calls[k].requestId)
            /\ UNCHANGED pendingChromeCommands
       ELSE /\ pendingChromeCommands' = MapDelete(pendingChromeCommands, calls[k].requestId)
            /\ UNCHANGED pendingToolRequests
    /\ calls' = MapDelete(calls, k)
    /\ settledIds' = settledIds \cup {calls[k].requestId}
    /\ lastOp' = [op |-> "timeout", settled |-> Settlement(calls[k], "rejected", "timeout")]
    /\ sent' = <<>>
    /\ UNCHANGED <<config, nextId, now, ws, registries, distributedServerIPs, catalog>>

\* time passes until the deadline of some armed timer
Tick ==
    /\ \E k \in DOMAIN calls :
         /\ calls[k].deadline > now
         /\ now' = calls[k].deadline
    /\ lastOp' = [op |-> "tick"]
    /\ sent' = <<>>
    /\ UNCHANGED <<config, nextId, ws, registries, distributedServerIPs, catalog,
                   tables, promises>>

\* ------------------------------------------------------- specifications
TargetArgs == {ServerId(n) : n \in 1..MaxSockets} \cup DisplayNames
ClientIdArgs == {ClientId(n) : n \in 0..MaxSockets}

\* Spec: connections of all three types, registration and IP reports, the outbound
\* primitives, and the RPC functions called while their target is unavailable
\* (no request is registered: SpecRpc has the requests)
Next ==
    \/ \E key \in ConfigKeys : initialize(key) /\ UNCHANGED others
    \/ setPluginManager /\ UNCHANGED others
    \/ \E path \in Paths : Upgrade(path) /\ UNCHANGED others
    \/ \E n \in DOMAIN ws :
         \E m \in BadFrames \cup OtherFrames \cup ReportFrames(DisplayNames)
                  \cup RegisterFrames({<<"internal_request_file", "toolA">>}) :
            OnMessage(n, m) /\ UNCHANGED others
    \/ \E n \in DOMAIN ws : BeginClose(n) /\ UNCHANGED others
    \/ \E n \in DOMAIN ws : OnClose(n) /\ UNCHANGED others
    \/ \E n \in DOMAIN ws : OnError(n) /\ UNCHANGED others
    \/ \E data \in Payloads, t \in ClientTypes \cup {NULL} :
         broadcast(data, t) /\ UNCHANGED others
    \/ \E id \in ClientIdArgs, data \in Payloads :
         sendMessageToClient(id, data) /\ UNCHANGED others
    \/ sendCommandToChrome(NoId, NoTimeout) /\ UNCHANGED promises /\ UNCHANGED others
    \/ \E s \in TargetArgs :
         executeDistributedTool(s, "toolA", 0, NoTimeout)
         /\ UNCHANGED promises /\ UNCHANGED others

Spec == Init /\ [][Next]_vars

\* SpecRpc: distributed servers and browser observers with requests in flight,
\* their replies and their timers
RpcPaths == {p \in Paths : p.key = SecretKey /\ PathClientType(p) # "VCPLog"}

\* the state once server start-up has run initialize(...) and setPluginManager(...)
HubStarted ==
    /\ wssInstance = TRUE
    /\ vcpKey = SecretKey
    /\ pluginManager = "set"
    /\ nextId = 1
    /\ now = 0
    /\ ws = EmptyMap
    /\ clients = EmptyMap
    /\ distributedServers = EmptyMap
    /\ chromeObserverClients = EmptyMap
    /\ distributedServerIPs = EmptyMap
    /\ catalog = EmptyMap
    /\ pendingToolRequests = EmptyMap
    /\ pendingChromeCommands = EmptyMap
    /\ calls = EmptyMap
    /\ settledIds = {}
    /\ lastOp = [op |-> "setPluginManager"]
    /\ sent = <<>>
Started == HubStarted /\ NoSession /\ NoEmbedding

RpcNext ==
    \/ \E path \in RpcPaths : Upgrade(path) /\ nextId <= MaxPeers /\ UNCHANGED others
    \/ \E n \in DOMAIN ws : \E m \in ReplyFrames(ReplyIds) :
         OnMessage(n, m) /\ UNCHANGED others
    \/ \E n \in DOMAIN ws : OnClose(n) /\ UNCHANGED others
    \/ \E id \in CallerIds \cup {NoId} : sendCommandToChrome(id, NoTimeout) /\ UNCHANGED others
    \/ \E s \in TargetArgs :
         executeDistributedTool(s, "toolA", 0, 10000) /\ UNCHANGED others
    \/ \E k \in DOMAIN calls : TimerExpire(k) /\ UNCHANGED others
    \/ Tick /\ UNCHANGED others

SpecRpc == Started /\ [][RpcNext]_vars

\* SpecRpcFair: the distributed tool requests of SpecRpc, where time passes and a
\* timer whose deadline is reached runs its callback (the event loop runs every
\* due timer)
ToolPaths == {p \in RpcPaths : PathClientType(p) = "DistributedServer"}
ToolNext ==
    \/ \E path \in ToolPaths : Upgrade(path) /\ nextId <= MaxPeers /\ UNCHANGED others
    \/ \E n \in DOMAIN ws : \E m \in ReplyFrames(ReplyIds) :
         OnMessage(n, m) /\ UNCHANGED others
    \/ \E n \in DOMAIN ws : OnClose(n) /\ UNCHANGED others
    \/ \E s \in TargetArgs :
         executeDistributedTool(s, "toolA", 0, 10000) /\ UNCHANGED others
    \/ \E k \in DOMAIN calls : TimerExpire(k) /\ UNCHANGED others
    \/ Tick /\ UNCHANGED others

SpecRpcFair ==
    /\ Started
    /\ [][ToolNext]_vars
    /\ WF_vars(Tick /\ UNCHANGED others)
    /\ \A k \in 1..MaxCalls : WF_vars(TimerExpire(k) /\ UNCHANGED others)

\* SpecDist: distributed servers that report a display name and register tools,
\* browser observers, sockets closing, and requests sent to them; no reply comes
\* and no timer is due
DistNext ==
    \/ \E path \in RpcPaths : Upgrade(path) /\ UNCHANGED others
    \/ \E n \in DOMAIN ws :
         \E m \in ReportFrames(DisplayNames)
                  \cup RegisterFrames({<<"internal_request_file", "toolA">>}) :
            OnMessage(n, m) /\ UNCHANGED others
    \/ \E n \in DOMAIN ws : BeginClose(n) /\ UNCHANGED others
    \/ \E n \in DOMAIN ws : OnClose(n) /\ UNCHANGED others
    \/ sendCommandToChrome(NoId, NoTimeout) /\ UNCHANGED others
    \/ \E s \in TargetArgs :
         executeDistributedTool(s, "toolA", 0, 10000) /\ UNCHANGED others

SpecDist == Started /\ [][DistNext]_vars

\* SpecFrames: connections of the three types with names, tools and requests
\* pending, and frames that are not JSON or lack their data object
FramesNext ==
    \/ \E path \in Paths : Upgrade(path) /\ path.key = SecretKey /\ UNCHANGED others
    \/ \E n \in DOMAIN ws :
         \E m \in BadFrames \cup ReportFrames(DisplayNames)
                  \cup RegisterFrames({<<"toolA">>}) :
            OnMessage(n, m) /\ UNCHANGED others
    \/ sendCommandToChrome(NoId, NoTimeout) /\ UNCHANGED others
    \/ \E s \in TargetArgs :
         executeDistributedTool(s, "toolA", 0, 10000) /\ UNCHANGED others

SpecFrames == Started /\ [][FramesNext]_vars

\* ------------------------------------------------------- properties
\* socket n has emitted neither 'close' (its object is gone) nor 'error'
Live(n) == n \in DOMAIN ws /\ ~ws[n].errored
InClients(n) == \E id \in DOMAIN clients : clients[id] = n
InServers(n) == \E s \in DOMAIN distributedServers : distributedServers[s].ws = n
InObservers(n) == \E id \in DOMAIN chromeObserverClients : chromeObserverClients[id] = n
\* the pending requests that carry request ID id
Outstanding(id) == {k \in DOMAIN calls : calls[k].requestId = id}

C2_OwnEntryUntilSettled ==
    \A k \in DOMAIN calls :
       LET table == IF calls[k].chan = "tool" THEN pendingToolRequests
                    ELSE pendingChromeCommands IN
       calls[k].requestId \in DOMAIN table /\ table[calls[k].requestId] = k

\* C3: a distributed tool request that is pending is eventually settled; when no
\* reply settles it, its timer rejects it with the timeout error that names the
\* tool and the timeout in seconds, and from then on pendingToolRequests does not
\* hold its request ID.
GeneratedIds == {<<"id", i>> : i \in 1..MaxIds}
Replied(id) ==
    lastOp.op = "message" /\ lastOp.outcome = "settled" /\ lastOp.requestId = id
TimedOut(id) ==
    /\ lastOp.op = "timeout"
    /\ lastOp.settled = [requestId |-> id, chan |-> "tool", outcome |-> "rejected",
                         error |-> "timeout", toolName |-> "toolA", seconds |-> 10]
    /\ id \notin DOMAIN pendingToolRequests
C3_ToolCallTimesOut ==
    \A id \in GeneratedIds :
       /\ (id \in DOMAIN pendingToolRequests) ~> (Replied(id) \/ TimedOut(id))
       /\ [](TimedOut(id) => [](id \notin DOMAIN pendingToolRequests))

\* the first tool request was rejected by its timer
C3_TimedOutReached == TimedOut(<<"id", 2>>)

C5_CloseOrErrorUnregisters ==
    /\ \A id \in DOMAIN clients : Live(clients[id])
    /\ \A id \in DOMAIN chromeObserverClients : Live(chromeObserverClients[id])
    /\ \A s \in DOMAIN distributedServers : Live(distributedServers[s].ws)
    /\ \A s \in DOMAIN distributedServerIPs :
          s \in DOMAIN distributedServers /\ Live(distributedServers[s].ws)
    /\ \A t \in DOMAIN catalog :
          catalog[t] \in DOMAIN distributedServers
          /\ Live(distributedServers[catalog[t]].ws)

\* C6: every live connection is in the registry of its client type, under its own
\* ID, and in no other; no distributed server's socket is in the clients Map.
C6_OneRegistryPerConnection ==
    /\ \A n \in DOMAIN ws :
          /\ Live(n) =>
               /\ InServers(n) <=> ws[n].clientType = "DistributedServer"
               /\ InObservers(n) <=> ws[n].clientType = "ChromeObserver"
               /\ InClients(n) <=>
                     ws[n].clientType \notin {"DistributedServer", "ChromeObserver"}
          /\ Cardinality({r \in {"c", "s", "o"} :
                             \/ r = "c" /\ InClients(n)
                             \/ r = "s" /\ InServers(n)
                             \/ r = "o" /\ InObservers(n)}) <= 1
          /\ ws[n].clientType = "DistributedServer" => ~InClients(n)
    /\ \A id \in DOMAIN clients : id = ClientId(clients[id])
    /\ \A id \in DOMAIN chromeObserverClients : id = ClientId(chromeObserverClients[id])
    /\ \A s \in DOMAIN distributedServers : s = ServerId(distributedServers[s].ws)

\* a distributed server and a log client are connected
C6_TwoTypesConnected ==
    \E n, k \in DOMAIN ws :
       /\ Live(n) /\ ws[n].clientType = "DistributedServer"
       /\ Live(k) /\ ws[k].clientType = "VCPLog"

\* C7: an upgrade request whose path matches no template, or whose key is not the
\* configured secret, destroys the socket: no ID is allocated, no registry changes,
\* no frame is sent; one with a matching path and the secret is not destroyed; every
\* registered socket was admitted with the configured secret.
C7_UpgradeNeedsPathAndKey ==
    /\ [](\A n \in DOMAIN ws : ws[n].key = vcpKey /\ vcpKey = SecretKey)
    /\ [][\A path \in Paths :
            (lastOp'.op = "upgrade" /\ Upgrade(path)) =>
               IF PathClientType(path) # NULL /\ path.key = vcpKey
               THEN lastOp'.result # "destroyed"
               ELSE /\ lastOp'.result = "destroyed"
                    /\ sent' = <<>>
                    /\ UNCHANGED <<nextId, ws, registries>>]_vars

\* an upgrade request was refused while a connection is registered
C7_UpgradeRefused ==
    /\ lastOp.op = "upgrade"
    /\ lastOp.result = "destroyed"
    /\ DOMAIN ws # {}

\* C8: broadcast(payload, T) sends the payload once to every open socket of the
\* clients Map or of the distributed-server registry whose type is T (any type when
\* T is null), and nothing to any other socket.
C8_BroadcastExactlyOnce ==
    lastOp.op = "broadcast" =>
       /\ \A i \in DOMAIN sent : sent[i].frame.type = "payload"
       /\ \A n \in 1..MaxIds :
             Cardinality({i \in DOMAIN sent : sent[i].to = n}) =
                IF /\ n \in DOMAIN ws
                   /\ ws[n].readyState = OPEN
                   /\ InClients(n) \/ InServers(n)
                   /\ lastOp.target = NULL \/ ws[n].clientType = lastOp.target
                THEN 1 ELSE 0

\* a broadcast to the log clients reached one socket and left out an open
\* distributed server
C8_FilteredBroadcast ==
    /\ lastOp.op = "broadcast"
    /\ lastOp.target = "VCPLog"
    /\ Len(sent) = 1
    /\ \E n \in DOMAIN ws : InServers(n) /\ ws[n].readyState = OPEN

\* C9: sendMessageToClient(id, payload) returns true exactly when a socket with that
\* ID is in one of the three registries and is open; it then sends that socket one
\* frame, and otherwise sends none; it does not throw.
C9_SendMessageToClient ==
    lastOp.op = "sendMessageToClient" =>
       LET found == {n \in DOMAIN ws :
                       /\ ClientId(n) = lastOp.clientId
                       /\ InClients(n) \/ InServers(n) \/ InObservers(n)
                       /\ ws[n].readyState = OPEN} IN
       /\ lastOp.returned <=> found # {}
       /\ ~lastOp.threw
       /\ IF lastOp.returned
          THEN Len(sent) = 1 /\ sent[1].to \in found /\ sent[1].frame.type = "payload"
          ELSE sent = <<>>

\* a message was sent to a browser observer
C9_SentToObserver ==
    /\ lastOp.op = "sendMessageToClient"
    /\ lastOp.returned
    /\ Len(sent) = 1
    /\ InObservers(sent[1].to)

\* C10: executeDistributedTool whose target resolves to no server, or to a server
\* whose socket is not open, and sendCommandToChrome without an observer, or whose
\* first observer's socket is not open, are rejected at once: no frame is sent, no
\* timer is armed and no entry is added to a pending table.
C10_UnavailableTargetRejected ==
    [][/\ \A s \in TargetArgs :
            (/\ lastOp'.op = "executeDistributedTool"
             /\ \/ ResolveServer(s) = NoId
                \/ ws[distributedServers[ResolveServer(s)].ws].readyState # OPEN
             /\ executeDistributedTool(s, "toolA", 0, 10000)) =>
               /\ lastOp'.result = "rejected"
               /\ sent' = <<>>
               /\ UNCHANGED <<tables, calls>>
       /\ (/\ lastOp'.op = "sendCommandToChrome"
           /\ \/ DOMAIN chromeObserverClients = {}
              \/ ws[FirstObserver].readyState # OPEN
           /\ sendCommandToChrome(NoId, NoTimeout)) =>
               /\ lastOp'.result = "rejected"
               /\ sent' = <<>>
               /\ UNCHANGED <<tables, calls>>]_vars

\* a Chrome command was rejected while the only observer's socket is closing
C10_RejectedWhileClosing ==
    /\ lastOp.op = "sendCommandToChrome"
    /\ lastOp.result = "rejected"
    /\ DOMAIN chromeObserverClients # {}
    /\ \A id \in DOMAIN chromeObserverClients :
          ws[chromeObserverClients[id]].readyState = CLOSING

\* ================================================= streaming proxy session
\* GeminiLiveProxy (src/unnamed/part_000) relays frames between a client socket and
\* an upstream socket; GeminiToolsAdapter (src/unnamed/part_001) executes tool calls.
\* A frame is a record of the fields of its parsed JSON value; [bytes |-> b] and
\* [string |-> s] are a Buffer and a string that JSON.parse rejects, and
\* [value |-> NULL] is the JSON text "null".  An array is [entries |-> <<...>>].

\* at most MaxFrames 'message' events are emitted by each socket
MaxFrames == 2
\* a tool-call batch holds at most MaxBatch function calls
MaxBatch == 2

\* the arguments of a close() call without arguments
NoArgs == <<>>
CloseCodes == {1000, 1011}
CloseReasons == {"", "bye"}

\* -- the sockets (package 'ws'): send() throws on a socket that is still connecting,
\* hands the frame over on an open one, and discards it on a closing or closed one
SendThrows(socket) == socket.readyState = CONNECTING
SendDelivers(socket) == socket.readyState = OPEN
\* close(...args) starts the closing handshake of an open socket; closeCall holds
\* the arguments of the call that did
CloseSocket(socket, args) ==
    IF socket.readyState = OPEN
    THEN [socket EXCEPT !.readyState = CLOSING, !.closeCall = <<args>>]
    ELSE socket
\* the socket emits 'close' with the code and the reason of the peer's close frame
Closed(socket, code, reason) ==
    [socket EXCEPT !.readyState = CLOSED, !.closeEvent = << <<code, reason>> >>]

\* new GeminiLiveProxy(clientWs, config, pluginManager): init() creates the upstream
\* socket and wires the handlers
SessionCreated ==
    /\ upstreamWs = [readyState |-> CONNECTING, closeCall |-> <<>>, closeEvent |-> <<>>]
    /\ clientWs = [readyState |-> OPEN, closeCall |-> <<>>, closeEvent |-> <<>>]
    /\ received = [upstream |-> 0, client |-> 0]
    /\ handlers = {}
    /\ emitted = <<>>
    /\ rejected = {}

\* -- frames
RECURSIVE Countdown(_)
Countdown(n) == IF n = 0 THEN <<>> ELSE <<n>> \o Countdown(n - 1)
ToolNames == <<"search_memory", "DailyNoteWrite", "perform_meta_thinking">>
\* the function calls {id, name, args} of the upstream frames
FunctionCall(i) == [id |-> i, name |-> ToolNames[((i - 1) % 3) + 1]]
Batches == {[i \in 1..n |-> FunctionCall(i)] : n \in 1..MaxBatch}
           \cup {[i \in 1..n |-> FunctionCall(Countdown(n)[i])] : n \in 2..MaxBatch}
UpstreamFrames ==
    {[toolCall |-> [functionCalls |-> b]] : b \in Batches}
    \cup {[toolCall |-> [functionCalls |-> <<>>]],
          [serverContent |-> "turn"],
          [bytes |-> "audio"]}
\* a variant of IsBatch that takes a single call for no batch
IsBatchOfSeveral(data) ==
    "toolCall" \in DOMAIN data /\ Len(data.toolCall.functionCalls) > 1
\* msg.toolCall with functionCalls && functionCalls.length > 0
IsBatch(data) ==
    /\ "toolCall" \in DOMAIN data
    /\ "functionCalls" \in DOMAIN data.toolCall
    /\ Len(data.toolCall.functionCalls) > 0

\* the setup payloads of the client frames: caller parts, and tools that are an array
\* of declarations or (a caller's mistake) one declaration object
Setups == [model : {"m"},
           systemInstruction : {[parts |-> <<>>], [parts |-> <<"p1", "p2">>]},
           tools : {[entries |-> << [functionDeclarations |-> <<"f1">>] >>],
                    [functionDeclarations |-> <<"f1">>]}]
ClientFrames ==
    {[setup |-> st] : st \in Setups}
    \cup {[realtimeInput |-> "chunk"], [bytes |-> "audio"], [string |-> "text"],
          [value |-> NULL]}

\* -- GeminiToolsAdapter.handleToolCall(toolCall): what the promise resolves with when
\* the tool's execution returns a value or throws
ToolOutcomes == {"returns", "throws"}
VirtualTools == {"search_memory", "perform_meta_thinking"}
\* an exception thrown to the caller, in place of a value
Thrown == [thrown |-> TRUE]
\* a variant of handleToolCall without its try/catch
handleToolCallUncaught(toolCall, outcome) ==
    IF outcome = "throws" THEN Thrown
    ELSE IF toolCall.name \in VirtualTools THEN [result |-> <<"text", toolCall.name>>]
    ELSE [plugin |-> <<"result", toolCall.name>>]
handleToolCall(toolCall, outcome) ==
    IF outcome = "throws" THEN [error |-> <<"message", toolCall.name>>]
    ELSE IF toolCall.name \in VirtualTools THEN [result |-> <<"text", toolCall.name>>]
    ELSE [plugin |-> <<"result", toolCall.name>>]

\* -- injectVCPContext(originalSetup)
VcpPrompt == "[System Context] ... [VCP Capability Injection] ..."
\* PluginManager.plugins, a Map from name to manifest in insertion order: a manifest
\* has a name and may have capabilities.invocationCommands
Manifest(name, commands) == [name |-> name, invocationCommands |-> commands]
PluginRegistry ==
    << Manifest("VCPLog", TRUE), Manifest("DailyNoteWrite", FALSE),
       Manifest("EmojiListGenerator", FALSE), Manifest("WeatherReporter", TRUE),
       Manifest("TavilySearch", TRUE) >>
KnownSchemas == {"DailyNoteWrite", "SciCalculator", "ChromeControl"}
\* convertManifestToTool(manifest): the declaration (here its name), or none for a
\* plugin without a known schema and without invocation commands
convertManifestToTool(manifest) ==
    IF manifest.name \in KnownSchemas \/ manifest.invocationCommands
    THEN <<manifest.name>>
    ELSE <<>>
\* a variant of ConvertedPlugins without the deny-list
RECURSIVE ConvertedPluginsUnfiltered(_)
ConvertedPluginsUnfiltered(manifests) ==
    IF manifests = <<>> THEN <<>>
    ELSE convertManifestToTool(Head(manifests)) \o ConvertedPluginsUnfiltered(Tail(manifests))
\* the loop of getAllToolDeclarations over the registry
RECURSIVE ConvertedPlugins(_)
ConvertedPlugins(manifests) ==
    IF manifests = <<>> THEN <<>>
    ELSE (IF Head(manifests).name \in {"VCPLog", "WeatherReporter"} THEN <<>>
          ELSE convertManifestToTool(Head(manifests)))
         \o ConvertedPlugins(Tail(manifests))
getAllToolDeclarations ==
    ConvertedPlugins(PluginRegistry) \o <<"search_memory", "perform_meta_thinking">>
VcpTools == getAllToolDeclarations
\* existingTools.forEach(t => { if (t.functionDeclarations) push(...) })
RECURSIVE Flatten(_)
Flatten(entries) ==
    IF entries = <<>> THEN <<>>
    ELSE (IF "functionDeclarations" \in DOMAIN Head(entries)
          THEN Head(entries).functionDeclarations ELSE <<>>)
         \o Flatten(Tail(entries))
\* originalSetup.systemInstruction || {}, .parts || [], and originalSetup.tools || []
CallerParts(originalSetup) ==
    IF "systemInstruction" \in DOMAIN originalSetup
       /\ "parts" \in DOMAIN originalSetup.systemInstruction
    THEN originalSetup.systemInstruction.parts
    ELSE <<>>
ExistingTools(originalSetup) ==
    IF "tools" \in DOMAIN originalSetup THEN originalSetup.tools ELSE [entries |-> <<>>]
NewTools(originalSetup) ==
    [entries |-> << [functionDeclarations |->
                        Flatten(ExistingTools(originalSetup).entries) \o VcpTools] >>]
\* a variant of injectVCPContext that pushes the context block after the caller's parts
injectVCPContextAppended(originalSetup) ==
    [systemInstruction |-> [parts |-> Append(CallerParts(originalSetup), VcpPrompt)],
     tools |-> NewTools(originalSetup)] @@ originalSetup
\* a variant of injectVCPContext that returns the two injected fields alone
injectVCPContextAlone(originalSetup) ==
    [systemInstruction |-> [parts |-> <<VcpPrompt>> \o CallerParts(originalSetup)],
     tools |-> NewTools(originalSetup)]
\* existingTools.forEach is not a function unless tools is an array
InjectionThrows(originalSetup) == "entries" \notin DOMAIN ExistingTools(originalSetup)
\* {...originalSetup, systemInstruction: {parts}, tools: newTools}
injectVCPContext(originalSetup) ==
    [systemInstruction |-> [parts |-> <<VcpPrompt>> \o CallerParts(originalSetup)],
     tools |-> NewTools(originalSetup)] @@ originalSetup

\* -- sending
\* socket.send(data) called by the handler of frame number seq of socket from
Emit(to, from, seq, data) ==
    Append(emitted, [to |-> to, from |-> from, seq |-> seq, data |-> data])
\* a variant of SendUpstream whose socket queues the frames sent while it connects
SendUpstreamQueued(seq, frame) ==
    /\ emitted' = IF SendDelivers(upstreamWs) \/ SendThrows(upstreamWs)
                  THEN Emit("upstream", "client", seq, frame)
                  ELSE emitted
    /\ UNCHANGED rejected
\* try { upstreamWs.send(frame) } catch (e) { upstreamWs.send(data) } of
\* handleClientMessage: the send in the catch block throws as well, and the promise
\* of the handler is rejected
SendUpstream(seq, frame) ==
    /\ emitted' = IF SendDelivers(upstreamWs) THEN Emit("upstream", "client", seq, frame)
                  ELSE emitted
    /\ rejected' = IF SendThrows(upstreamWs) THEN rejected \cup {<<"client", seq>>}
                   ELSE rejected
\* a variant of SendClient that forwards only the frames that parsed
SendClientParsedOnly(seq, data) ==
    /\ emitted' = IF SendDelivers(clientWs) /\ DOMAIN data \cap {"bytes", "string"} = {}
                  THEN Emit("client", "upstream", seq, data)
                  ELSE emitted
    /\ UNCHANGED rejected
\* clientWs.send(data) of handleUpstreamMessage
SendClient(seq, data) ==
    /\ emitted' = IF SendDelivers(clientWs) THEN Emit("client", "upstream", seq, data)
                  ELSE emitted
    /\ UNCHANGED rejected

\* a variant of InterceptsSetup that takes only the first frame of a session for a
\* setup frame
InterceptsFirstFrameOnly(seq, data) == "setup" \in DOMAIN data /\ seq = 1
\* if (msg.setup), for frame number seq of the client: the test reads no state
InterceptsSetup(seq, data) == "setup" \in DOMAIN data

\* -- handleClientMessage(data), up to its return or its first await
handleClientMessage(data) ==
    LET seq == received.client + 1 IN
    /\ clientWs.readyState = OPEN
    /\ received.client < MaxFrames
    /\ received' = [received EXCEPT !.client = seq]
    /\ IF InterceptsSetup(seq, data)
       THEN \* await this.injectVCPContext(msg.setup)
            /\ handlers' = handlers \cup
                   {[from |-> "client", seq |-> seq, data |-> data,
                     threw |-> InjectionThrows(data.setup),
                     modifiedSetup |-> IF InjectionThrows(data.setup) THEN NULL
                                       ELSE injectVCPContext(data.setup)]}
            /\ UNCHANGED <<emitted, rejected>>
       ELSE \* binary, unparseable, null (msg.setup throws) or without setup
            /\ SendUpstream(seq, data)
            /\ UNCHANGED handlers
    /\ UNCHANGED <<upstreamWs, clientWs, outside>>

\* handleClientMessage after the await: the modified setup, or the raw frame from
\* the catch block, goes upstream
SetupContinues(h) ==
    /\ h \in handlers /\ h.from = "client"
    /\ handlers' = handlers \ {h}
    /\ SendUpstream(h.seq, IF h.threw THEN h.data ELSE [setup |-> h.modifiedSetup])
    /\ UNCHANGED <<upstreamWs, clientWs, received, outside>>

\* -- handleUpstreamMessage(data), up to its return or its first await
\* the calls whose execution starts once done calls have returned: the loop awaits
\* each call before it starts the next (the variant starts them all together)
CallsStartedAtOnce(functionCalls, done) ==
    IF done = 0 THEN 1..Len(functionCalls) ELSE {}
CallsStarted(functionCalls, done) ==
    IF done < Len(functionCalls) THEN {done + 1} ELSE {}

handleUpstreamMessage(data) ==
    LET seq == received.upstream + 1 IN
    /\ upstreamWs.readyState = OPEN
    /\ received.upstream < MaxFrames
    /\ received' = [received EXCEPT !.upstream = seq]
    /\ IF IsBatch(data)
       THEN \* await GeminiToolsAdapter.handleToolCall(call) of the first call
            /\ handlers' = handlers \cup
                   {[from |-> "upstream", seq |-> seq, data |-> data,
                     responses |-> <<>>,
                     running |-> CallsStarted(data.toolCall.functionCalls, 0)]}
            /\ UNCHANGED <<emitted, rejected>>
       ELSE \* unparseable (catch block) or without tool call
            /\ SendClient(seq, data)
            /\ UNCHANGED handlers
    /\ UNCHANGED <<upstreamWs, clientWs, outside>>

\* the response entry pushed for a call
FunctionResponse(call, result) ==
    [id |-> call.id, name |-> call.name, response |-> [result |-> result]]
\* the promise of running call i settles: its response is pushed, and the next call
\* starts or the aggregated toolResponse goes upstream; were the promise rejected,
\* the catch block would forward the frame to the client
ToolCallReturns(h, i, outcome) ==
    /\ h \in handlers /\ h.from = "upstream" /\ i \in h.running
    /\ LET functionCalls == h.data.toolCall.functionCalls
           call == functionCalls[i]
           result == handleToolCall(call, outcome)
           responses == Append(h.responses, FunctionResponse(call, result))
       IN IF result = Thrown
          THEN /\ handlers' = handlers \ {h}
               /\ SendClient(h.seq, h.data)
          ELSE IF Len(responses) < Len(functionCalls)
          THEN /\ handlers' = (handlers \ {h}) \cup
                      {[h EXCEPT !.responses = responses,
                                 !.running = (h.running \ {i}) \cup
                                     CallsStarted(functionCalls, Len(responses))]}
               /\ UNCHANGED <<emitted, rejected>>
          ELSE /\ handlers' = handlers \ {h}
               /\ emitted' =
                      IF SendDelivers(upstreamWs)
                      THEN Emit("upstream", "upstream", h.seq,
                                [toolResponse |-> [functionResponses |-> responses]])
                      ELSE emitted
               /\ UNCHANGED rejected
    /\ UNCHANGED <<upstreamWs, clientWs, received, outside>>

\* -- socket events
\* upstreamWs.on('open')
UpstreamOpen ==
    /\ upstreamWs.readyState = CONNECTING
    /\ upstreamWs' = [upstreamWs EXCEPT !.readyState = OPEN]
    /\ UNCHANGED <<clientWs, received, handlers, emitted, rejected, outside>>

\* upstreamWs.on('close', (code, reason) => clientWs.close(code, reason))
UpstreamClose(code, reason) ==
    /\ upstreamWs.readyState \in {OPEN, CLOSING}
    /\ upstreamWs' = Closed(upstreamWs, code, reason)
    /\ clientWs' = CloseSocket(clientWs, <<code, reason>>)
    /\ UNCHANGED <<received, handlers, emitted, rejected, outside>>

\* upstreamWs.on('error', () => clientWs.close()); the socket's 'close' follows
UpstreamError ==
    /\ upstreamWs.readyState \in {CONNECTING, OPEN}
    /\ upstreamWs' = [upstreamWs EXCEPT !.readyState = CLOSING]
    /\ clientWs' = CloseSocket(clientWs, NoArgs)
    /\ UNCHANGED <<received, handlers, emitted, rejected, outside>>

\* clientWs.on('close'): closes the upstream socket if it is open
ClientClose(code, reason) ==
    /\ clientWs.readyState \in {OPEN, CLOSING}
    /\ clientWs' = Closed(clientWs, code, reason)
    /\ upstreamWs' = IF upstreamWs.readyState = OPEN
                     THEN CloseSocket(upstreamWs, NoArgs)
                     ELSE upstreamWs
    /\ UNCHANGED <<received, handlers, emitted, rejected, outside>>

\* clientWs.on('error'): closes the upstream socket if it is open
ClientError ==
    /\ clientWs.readyState = OPEN
    /\ clientWs' = [clientWs EXCEPT !.readyState = CLOSING]
    /\ upstreamWs' = IF upstreamWs.readyState = OPEN
                     THEN CloseSocket(upstreamWs, NoArgs)
                     ELSE upstreamWs
    /\ UNCHANGED <<received, handlers, emitted, rejected, outside>>

\* the session once the upstream socket has emitted 'open'
SessionOpen ==
    /\ upstreamWs = [readyState |-> OPEN, closeCall |-> <<>>, closeEvent |-> <<>>]
    /\ clientWs = [readyState |-> OPEN, closeCall |-> <<>>, closeEvent |-> <<>>]
    /\ received = [upstream |-> 0, client |-> 0]
    /\ handlers = {}
    /\ emitted = <<>>
    /\ rejected = {}

\* SpecUpstream: the frames of the upstream socket of an open session, the tool calls
\* they start, and the upstream socket closing
UpstreamNext ==
    \/ \E data \in UpstreamFrames : handleUpstreamMessage(data)
    \/ \E h \in handlers, outcome \in ToolOutcomes :
         \E i \in h.running : ToolCallReturns(h, i, outcome)
    \/ UpstreamClose(1000, "")

OpenSession == HubStarted /\ SessionOpen /\ NoEmbedding
SpecUpstream == OpenSession /\ [][UpstreamNext]_vars

\* SpecClient: the frames of the client socket of a session from its creation, while
\* the upstream socket connects
ClientNext ==
    \/ UpstreamOpen
    \/ \E data \in ClientFrames : handleClientMessage(data)
    \/ \E h \in handlers : SetupContinues(h)
    \/ ClientClose(1000, "")

NewSession == HubStarted /\ SessionCreated /\ NoEmbedding
SpecClient == NewSession /\ [][ClientNext]_vars

\* SpecClose: the two sockets of a session opening, failing and closing, with frames
\* of the client relayed in between
CloseNext ==
    \/ UpstreamOpen
    \/ handleClientMessage([realtimeInput |-> "chunk"])
    \/ \E code \in CloseCodes, reason \in CloseReasons : UpstreamClose(code, reason)
    \/ UpstreamError
    \/ \E code \in CloseCodes, reason \in CloseReasons : ClientClose(code, reason)
    \/ ClientError

SpecClose == NewSession /\ [][CloseNext]_vars

\* SpecCloseFair: SpecClose where a connection attempt ends (the socket opens or
\* fails) and a socket that is closing emits its 'close' (the closing handshake
\* completes or the socket is destroyed)
ConnectEnds == UpstreamOpen \/ UpstreamError
UpstreamClosingEnds ==
    /\ upstreamWs.readyState = CLOSING
    /\ \E code \in CloseCodes, reason \in CloseReasons : UpstreamClose(code, reason)
ClientClosingEnds ==
    /\ clientWs.readyState = CLOSING
    /\ \E code \in CloseCodes, reason \in CloseReasons : ClientClose(code, reason)
SpecCloseFair ==
    /\ NewSession
    /\ [][CloseNext]_vars
    /\ WF_vars(ConnectEnds /\ upstreamWs.readyState = CONNECTING)
    /\ WF_vars(UpstreamClosingEnds)
    /\ WF_vars(ClientClosingEnds)

\* ------------------------------------------- properties of the proxy session
\* the positions of the frames that the handler of frame seq of socket from sent
EmittedBy(from, seq) ==
    {i \in 1..Len(emitted) : emitted[i].from = from /\ emitted[i].seq = seq}
IsToolResponse(data) == DOMAIN data = {"toolResponse"}
\* the frame carries a tool-call batch with one or more calls
CarriesToolCalls(data) ==
    "toolCall" \in DOMAIN data /\ data.toolCall.functionCalls # <<>>
\* entry is {id, name, response: {result}} with the id and the name of call
ResponseFor(call, entry) ==
    /\ DOMAIN entry = {"id", "name", "response"}
    /\ entry.id = call.id /\ entry.name = call.name
    /\ DOMAIN entry.response = {"result"}
\* the handler h of a tool-call batch receives the result of its last call
LastCallReturns(h) ==
    /\ h.from = "upstream"
    /\ Len(h.responses) + 1 = Len(h.data.toolCall.functionCalls)
\* the step appends exactly frame e to the frames sent
Sends(e) == emitted' = Append(emitted, e)

\* C11: of an upstream frame with a batch of one or more tool calls the client socket
\* receives nothing, and the upstream socket receives exactly one toolResponse, sent
\* when the last call has returned, with one {id, name, response: {result}} entry per
\* call (nothing is sent before, and nothing if the upstream socket has closed by then)
C11_BatchAnsweredNotForwarded ==
    /\ [](\A i \in 1..Len(emitted) :
            /\ emitted[i].to = "client" => ~CarriesToolCalls(emitted[i].data)
            /\ emitted[i].from = "upstream" =>
                 /\ EmittedBy("upstream", emitted[i].seq) = {i}
                 /\ \A h \in handlers : h.seq # emitted[i].seq)
    /\ [][\A h \in handlers : h \notin handlers' =>
            IF LastCallReturns(h) /\ SendDelivers(upstreamWs)
            THEN LET functionCalls == h.data.toolCall.functionCalls
                     e == emitted'[Len(emitted')] IN
                 /\ Len(emitted') = Len(emitted) + 1
                 /\ Sends(e)
                 /\ e.to = "upstream" /\ e.seq = h.seq /\ IsToolResponse(e.data)
                 /\ LET functionResponses == e.data.toolResponse.functionResponses IN
                    /\ Len(functionResponses) = Len(functionCalls)
                    /\ \A k \in 1..Len(functionCalls) :
                         ResponseFor(functionCalls[k], functionResponses[k])
            ELSE emitted' = emitted]_vars

\* C11 is exercised: a batch of two calls was answered by a toolResponse
C11_BatchAnswered ==
    \E i \in 1..Len(emitted) :
        /\ emitted[i].to = "upstream" /\ IsToolResponse(emitted[i].data)
        /\ Len(emitted[i].data.toolResponse.functionResponses) = 2

\* C12: the calls of a batch are executed one after the other (call i+1 is started
\* only when call i has returned), and the responses, as collected and as sent in the
\* toolResponse, are in the order of the calls, response i with id and name of call i
C12_CallsSequentialInOrder ==
    /\ [](\A h \in handlers : h.from = "upstream" =>
            /\ h.running = {Len(h.responses) + 1}
            /\ \A k \in 1..Len(h.responses) :
                 ResponseFor(h.data.toolCall.functionCalls[k], h.responses[k]))
    /\ [][\A h \in handlers :
            (h \notin handlers' /\ LastCallReturns(h) /\ SendDelivers(upstreamWs)) =>
                LET functionCalls == h.data.toolCall.functionCalls
                    sentResponses ==
                        emitted'[Len(emitted')].data.toolResponse.functionResponses IN
                \A k \in 1..Len(functionCalls) :
                    /\ sentResponses[k].id = functionCalls[k].id
                    /\ sentResponses[k].name = functionCalls[k].name]_vars

\* C12 is exercised: the second call of a batch is running after the first returned
C12_SecondCallRunning ==
    \E h \in handlers : h.from = "upstream" /\ Len(h.responses) = 1 /\ h.running = {2}

\* C13 (as stated): the outputs of the frames of one socket are emitted in the order
\* in which the frames arrived, whatever the earlier frame is still waiting for
C13_ArrivalOrder ==
    \A i, j \in 1..Len(emitted) :
        (i < j /\ emitted[i].from = emitted[j].from) => emitted[i].seq <= emitted[j].seq

\* what handleToolCall's promise resolves with: the tool's value or {error: message}
IsError(result) == DOMAIN result = {"error"}
ValueOrError(result) == DOMAIN result \in {{"result"}, {"plugin"}, {"error"}}

\* C14: a call that fails does not abort the batch or the session: it resolves with
\* {error: message}, the next call of the batch is started, no handler promise is
\* rejected, no socket is closed, and when the last call has returned one toolResponse
\* goes upstream with one entry per call, the failed calls' entries included
C14_FailedCallKeepsBatch ==
    [][\A h \in handlers : (h \notin handlers' /\ h.from = "upstream") =>
          LET functionCalls == h.data.toolCall.functionCalls
              done == Len(h.responses) + 1 IN
          /\ rejected' = rejected /\ upstreamWs' = upstreamWs /\ clientWs' = clientWs
          /\ IF done < Len(functionCalls)
             THEN /\ emitted' = emitted
                  /\ \E g \in handlers' :
                        /\ g.seq = h.seq /\ g.running = {done + 1}
                        /\ Len(g.responses) = done
                        /\ ValueOrError(g.responses[done].response.result)
                        /\ \A k \in 1..(done - 1) : g.responses[k] = h.responses[k]
             ELSE SendDelivers(upstreamWs) =>
                  /\ Len(emitted') = Len(emitted) + 1
                  /\ LET data == emitted'[Len(emitted')].data IN
                     /\ emitted'[Len(emitted')].to = "upstream"
                     /\ IsToolResponse(data)
                     /\ Len(data.toolResponse.functionResponses) = Len(functionCalls)
                     /\ \A k \in 1..Len(functionCalls) :
                          ValueOrError(data.toolResponse.functionResponses[k].response.result)
                     /\ \A k \in 1..(done - 1) :
                          data.toolResponse.functionResponses[k] = h.responses[k]]_vars

\* C14 is exercised: a toolResponse was sent whose first call failed and whose second
\* call returned a value
C14_FailedCallAnswered ==
    \E i \in 1..Len(emitted) :
        /\ IsToolResponse(emitted[i].data)
        /\ LET functionResponses == emitted[i].data.toolResponse.functionResponses IN
           /\ Len(functionResponses) = 2
           /\ IsError(functionResponses[1].response.result)
           /\ ~IsError(functionResponses[2].response.result)

\* the handlers of the client frames that are still suspended
Suspended(from, seq) == \E h \in handlers : h.from = from /\ h.seq = seq

\* C15 (as stated): while the session is alive (the upstream socket neither closing
\* nor closed), every client frame that has been handled has yielded exactly one
\* upstream frame, and no exception has escaped its handler
C15_EveryClientFrameForwardedOnce ==
    upstreamWs.readyState \in {CONNECTING, OPEN} =>
        /\ rejected = {}
        /\ \A seq \in 1..received.client :
             ~Suspended("client", seq) => Cardinality(EmittedBy("client", seq)) = 1

\* C16 (as stated): the frame sent upstream for a setup frame that is the first frame
\* of the client has the context block as first entry of systemInstruction.parts,
\* followed by the caller's parts
C16_FirstSetupAlwaysInjected ==
    [][\A h \in handlers :
          (h \notin handlers' /\ h.from = "client" /\ h.seq = 1
           /\ Len(emitted') = Len(emitted) + 1) =>
              LET data == emitted'[Len(emitted')].data IN
              /\ DOMAIN data = {"setup"}
              /\ data.setup.systemInstruction.parts =
                     <<VcpPrompt>> \o h.data.setup.systemInstruction.parts]_vars

\* C16: the frame sent upstream for a setup frame whose injection raised no exception
\* is {setup: ...} with the context block as first entry of systemInstruction.parts,
\* followed by all parts of the caller in their order, and the caller's other fields;
\* when the injection raised an exception, the frame sent is the raw frame
C16_SetupInjectedUnlessFailed ==
    [][\A h \in handlers :
          (h \notin handlers' /\ h.from = "client" /\ Len(emitted') = Len(emitted) + 1) =>
              LET data == emitted'[Len(emitted')].data
                  callerParts == h.data.setup.systemInstruction.parts IN
              IF h.threw THEN data = h.data
              ELSE /\ DOMAIN data = {"setup"}
                   /\ Len(data.setup.systemInstruction.parts) = Len(callerParts) + 1
                   /\ Head(data.setup.systemInstruction.parts) = VcpPrompt
                   /\ Tail(data.setup.systemInstruction.parts) = callerParts
                   /\ data.setup.model = h.data.setup.model]_vars

\* C16 is exercised: a setup frame went upstream with the block before two caller parts
C16_InjectedSetupSent ==
    \E i \in 1..Len(emitted) :
        /\ DOMAIN emitted[i].data = {"setup"}
        /\ emitted[i].data.setup.systemInstruction.parts = <<VcpPrompt, "p1", "p2">>

\* a socket has closed or failed; the session has closed a socket
Down(socket) == socket.readyState \in {CLOSING, CLOSED}
IsClosed(socket) == socket.readyState = CLOSED

\* C17 (as stated): once one socket of the session has closed or failed, the other
\* socket is eventually closed, whatever state it was in
C17_OtherSideEventuallyClosed ==
    /\ Down(clientWs) ~> IsClosed(upstreamWs)
    /\ Down(upstreamWs) ~> IsClosed(clientWs)

\* C18 (as stated): the close() that the 'close' event of one socket makes on the
\* other socket passes the code and the reason of the event, in both directions
C18_CloseCarriesCodeAndReason ==
    [][/\ (IsClosed(upstreamWs') /\ ~IsClosed(upstreamWs)
           /\ clientWs'.closeCall # clientWs.closeCall) =>
              clientWs'.closeCall = upstreamWs'.closeEvent
       /\ (IsClosed(clientWs') /\ ~IsClosed(clientWs)
           /\ upstreamWs'.closeCall # upstreamWs.closeCall) =>
              upstreamWs'.closeCall = clientWs'.closeEvent]_vars

\* C19: a frame on a hub connection that is not JSON, or that lacks its data object
\* (tool_result and command_result among them), is dropped: no exception escapes the
\* message handler, no promise is settled, and the three registries, the two pending
\* tables, the IP map and the tool catalog are unchanged
C19_MalformedFrameDropped ==
    [][lastOp'.op = "message" =>
          \A n \in DOMAIN ws : \A m \in BadFrames :
              OnMessage(n, m) =>
                  /\ UNCHANGED <<registries, tables, distributedServerIPs, catalog, calls>>
                  /\ ~lastOp'.escaped
                  /\ lastOp'.settled = NoSettlement]_vars

\* C19 is exercised: a frame was caught while a request was pending and a server had
\* reported its name
C19_CaughtWhilePending ==
    /\ lastOp.op = "message" /\ lastOp.outcome = "caught"
    /\ pendingToolRequests # EmptyMap
    /\ distributedServerIPs # EmptyMap

\* ==================================================== batched embeddings
\* getEmbeddingsBatch(texts, config) of src/EmbeddingUtils.js: the texts are split
\* into batches, DEFAULT_CONCURRENCY workers send the batches, and the vectors are put
\* back at the positions of their texts.  A text is [name, tokens], tokens being
\* encoding.encode(text).length; indices count from 1.

\* a call gets at most MaxTexts texts
MaxTexts == 3
\* MAX_BATCH_ITEMS (100 in the source) and DEFAULT_CONCURRENCY (5), scaled to MaxTexts
MAX_BATCH_ITEMS == 2
DEFAULT_CONCURRENCY == 2
\* parseInt(process.env.WhitelistEmbeddingModelMaxToken, 10) || 8000
embeddingMaxToken == 8000
safeMaxTokens == (embeddingMaxToken * 85) \div 100

Texts == {[name |-> "a", tokens |-> 3000], [name |-> "b", tokens |-> 4000],
          [name |-> "c", tokens |-> 100], [name |-> "huge", tokens |-> 7000]}
TextLists == UNION {[1..n -> Texts] : n \in 0..MaxTexts}
Null == [null |-> TRUE]
\* the vector the embedding service computes for a text
EmbeddingOf(text) == [embedding |-> text.name]

\* -- step 1: the loop that fills batches, from text i on, with the batch being filled
RECURSIVE SplitIntoBatches(_, _, _, _)
SplitIntoBatches(list, i, done, current) ==
    IF i > Len(list)
    THEN IF Len(current.texts) > 0
         THEN Append(done, [texts |-> current.texts,
                            originalIndices |-> current.originalIndices])
         ELSE done
    ELSE LET text == list[i]
             textTokens == text.tokens
             isTokenFull == Len(current.texts) > 0
                            /\ current.tokens + textTokens > safeMaxTokens
             isItemFull == Len(current.texts) >= MAX_BATCH_ITEMS IN
         IF textTokens > safeMaxTokens
         THEN SplitIntoBatches(list, i + 1, done, current)
         ELSE IF isTokenFull \/ isItemFull
         THEN SplitIntoBatches(list, i + 1,
                  Append(done, [texts |-> current.texts,
                                originalIndices |-> current.originalIndices]),
                  [texts |-> <<text>>, originalIndices |-> <<i>>, tokens |-> textTokens])
         ELSE SplitIntoBatches(list, i + 1, done,
                  [texts |-> Append(current.texts, text),
                   originalIndices |-> Append(current.originalIndices, i),
                   tokens |-> current.tokens + textTokens])
EmptyBatch == [texts |-> <<>>, originalIndices |-> <<>>, tokens |-> 0]

\* -- _sendBatch(batchTexts, config, batchNumber)
\* what the service does with one request: it answers with one item per input, in
\* the order of the inputs or not, or with no item at all (data.data.length === 0,
\* which only logs a warning); the attempt fails (network error, error status, bad
\* body); or the service answers 429
ApiOutcomes == {"inOrder", "reversed", "empty", "fails", "rateLimited"}
\* const retryAttempts = 3
retryAttempts == 3
\* what the service does with the requests of one batch, attempt by attempt: no
\* request follows one that was answered
AttemptOutcomes ==
    {o \in UNION {[1..n -> ApiOutcomes] : n \in 1..retryAttempts} :
        /\ \A k \in 1..(Len(o) - 1) : o[k] \in {"fails", "rateLimited"}
        /\ Len(o) < retryAttempts => o[Len(o)] \notin {"fails", "rateLimited"}}
ResponseData(batchTexts, api) ==
    LET n == Len(batchTexts)
        item(k) == [index |-> k - 1, embedding |-> EmbeddingOf(batchTexts[k])] IN
    IF api = "empty" THEN <<>>
    ELSE IF api = "inOrder" THEN [k \in 1..n |-> item(k)]
    ELSE [k \in 1..n |-> item(n + 1 - k)]
\* data.data.sort((a, b) => a.index - b.index)
SortByIndex(data) ==
    [k \in 1..Len(data) |-> CHOOSE it \in Range(data) : it.index = k - 1]
\* the for loop from the given attempt on: a 429 continues with the next attempt,
\* another failure is thrown from the catch block at the last attempt and retried
\* before, an answer that is ok ends the loop; the loop that ends without a return
\* leaves the function, which returns undefined (Null)
RECURSIVE Attempts(_, _)
Attempts(outcomes, attempt) ==
    IF attempt > retryAttempts THEN Null
    ELSE IF outcomes[attempt] = "rateLimited" THEN Attempts(outcomes, attempt + 1)
    ELSE IF outcomes[attempt] = "fails"
    THEN IF attempt = retryAttempts THEN Thrown ELSE Attempts(outcomes, attempt + 1)
    ELSE [ok |-> outcomes[attempt]]
\* a variant of sendBatch that maps the items in the order of the response
sendBatchUnsorted(batchTexts, outcomes) ==
    LET answer == Attempts(outcomes, 1) IN
    IF answer \in {Thrown, Null} THEN answer
    ELSE LET data == ResponseData(batchTexts, answer.ok) IN
         [entries |-> [k \in 1..Len(data) |-> data[k].embedding]]
\* the vectors, Thrown after the last failed attempt, or undefined (Null) when the
\* loop ends on a 429
sendBatch(batchTexts, outcomes) ==
    LET answer == Attempts(outcomes, 1) IN
    IF answer \in {Thrown, Null} THEN answer
    ELSE LET data == SortByIndex(ResponseData(batchTexts, answer.ok)) IN
         [entries |-> [k \in 1..Len(data) |-> data[k].embedding]]

\* -- step 2: the workers
\* const batchIndex = cursor++; if (batchIndex >= batches.length) break: the batches
\* that k workers take one after the other, starting at cursor c
RECURSIVE TakeBatches(_, _, _)
TakeBatches(k, c, total) ==
    IF k = 0 THEN <<>>
    ELSE <<IF c < total THEN c + 1 ELSE 0>> \o TakeBatches(k - 1, c + 1, total)

\* getEmbeddingsBatch(texts, config) up to 'await Promise.all(workers)': an empty list
\* returns [] at once
getEmbeddingsBatch(list) ==
    /\ returned.state = "none"
    /\ texts' = list
    /\ IF Len(list) = 0
       THEN /\ returned' = [state |-> "resolved", value |-> <<>>]
            /\ UNCHANGED <<batches, cursor, workers, batchResults>>
       ELSE LET split == SplitIntoBatches(list, 1, <<>>, EmptyBatch) IN
            /\ batches' = split
            /\ workers' = TakeBatches(DEFAULT_CONCURRENCY, 0, Len(split))
            /\ cursor' = DEFAULT_CONCURRENCY
            /\ batchResults' = EmptyMap
            /\ returned' = [state |-> "pending"]
    /\ UNCHANGED <<hub, session>>

\* step 3: the results put back at the original indices
FinalResults(list, results) ==
    [i \in 1..Len(list) |->
        IF \E b \in DOMAIN results :
              /\ results[b].vectors # Null
              /\ \E v \in 1..Len(results[b].originalIndices) :
                    /\ results[b].originalIndices[v] = i
                    /\ v <= Len(results[b].vectors.entries)
        THEN LET b == CHOOSE b \in DOMAIN results :
                         /\ results[b].vectors # Null
                         /\ \E v \in 1..Len(results[b].originalIndices) :
                               /\ results[b].originalIndices[v] = i
                               /\ v <= Len(results[b].vectors.entries)
                 v == CHOOSE v \in 1..Len(results[b].originalIndices) :
                         results[b].originalIndices[v] = i IN
             results[b].vectors.entries[v]
        ELSE Null]

\* a variant of BatchSettles whose worker reads the cursor without advancing it
BatchSettlesSharedCursor(w, api) ==
    /\ returned.state = "pending"
    /\ w \in DOMAIN workers /\ workers[w] # 0
    /\ LET b == workers[w]
           vectors == sendBatch(batches[b].texts, api)
           next == IF cursor < Len(batches) THEN cursor + 1 ELSE 0 IN
       /\ batchResults' = MapSet(batchResults, b,
              IF vectors = Thrown
              THEN [vectors |-> Null, originalIndices |-> batches[b].originalIndices,
                    error |-> "message"]
              ELSE [vectors |-> vectors,
                    originalIndices |-> batches[b].originalIndices])
       /\ workers' = [workers EXCEPT ![w] = next]
       /\ cursor' = IF next = 0 THEN cursor + 1 ELSE cursor
    /\ UNCHANGED <<texts, batches, returned, hub, session>>

\* the request of worker w settles: the worker stores the vectors, or null from its
\* catch block, and takes the next batch; were the exception not caught, the call
\* would be rejected
BatchSettles(w, api) ==
    /\ returned.state = "pending"
    /\ w \in DOMAIN workers /\ workers[w] # 0
    /\ LET b == workers[w]
           vectors == sendBatch(batches[b].texts, api)
           next == IF cursor < Len(batches) THEN cursor + 1 ELSE 0 IN
       /\ batchResults' = MapSet(batchResults, b,
              IF vectors = Thrown
              THEN [vectors |-> Null, originalIndices |-> batches[b].originalIndices,
                    error |-> "message"]
              ELSE [vectors |-> vectors,
                    originalIndices |-> batches[b].originalIndices])
       /\ workers' = [workers EXCEPT ![w] = next]
       /\ cursor' = cursor + 1
    /\ UNCHANGED <<texts, batches, returned, hub, session>>

\* every worker has left its loop: Promise.all resolves and the call returns
AllWorkersDone ==
    /\ returned.state = "pending"
    /\ \A w \in DOMAIN workers : workers[w] = 0
    /\ returned' = [state |-> "resolved", value |-> FinalResults(texts, batchResults)]
    /\ UNCHANGED <<texts, batches, cursor, workers, batchResults, hub, session>>

\* SpecEmbed: one call of getEmbeddingsBatch with any list of texts, and the
\* embedding service answering, failing or rate-limiting each batch
EmbedNext ==
    \/ \E list \in TextLists : getEmbeddingsBatch(list)
    \/ \E w \in 1..DEFAULT_CONCURRENCY, api \in AttemptOutcomes : BatchSettles(w, api)
    \/ AllWorkersDone

SpecEmbed == Started /\ [][EmbedNext]_vars

\* text i was skipped as oversize
Oversize(i) == texts[i].tokens > safeMaxTokens
\* batch b failed: its request threw or ended rate-limited (no vectors), or its
\* response held no vector for the batch
BatchFailed(b) ==
    \/ batchResults[b].vectors = Null
    \/ Len(batchResults[b].vectors.entries) < Len(batches[b].texts)
InBatch(i, b) == \E v \in 1..Len(batches[b].originalIndices) : batches[b].originalIndices[v] = i

ConnectionIds == {ClientId(n) : n \in DOMAIN ws}
\* the request IDs of the requests issued so far: pending, or settled
PendingIds == {calls[k].requestId : k \in DOMAIN calls}

\* C21: no two connections and no two requests of a process lifetime have the same
\* ID: two pending requests differ in their request ID, a request ID is not that of
\* a request settled earlier nor a connection's ID, and every table entry belongs
\* to the one pending request with its ID (no entry was overwritten).
C21_IdsNeverRepeat ==
    /\ \A j, k \in DOMAIN calls : j # k => calls[j].requestId # calls[k].requestId
    /\ PendingIds \cap settledIds = {}
    /\ (PendingIds \cup settledIds) \cap ConnectionIds = {}
    /\ \A id \in DOMAIN pendingChromeCommands :
          pendingChromeCommands[id] \in DOMAIN calls
          /\ calls[pendingChromeCommands[id]].requestId = id
    /\ \A id \in DOMAIN pendingToolRequests :
          pendingToolRequests[id] \in DOMAIN calls
          /\ calls[pendingToolRequests[id]].requestId = id

\* ================================================== setup frames of a session
\* the frame is a setup frame that went through injectVCPContext
IsInjected(data) ==
    /\ DOMAIN data = {"setup"}
    /\ data.setup.systemInstruction.parts # <<>>
    /\ Head(data.setup.systemInstruction.parts) = VcpPrompt
    /\ "entries" \in DOMAIN data.setup.tools
InjectedFrames == {i \in 1..Len(emitted) : IsInjected(emitted[i].data)}

\* C22: the context injection is applied at most once in a session: at most one of
\* the frames sent upstream is an injected setup frame.
C22_InjectedAtMostOnce == Cardinality(InjectedFrames) <= 1

\* C23 (as stated): every client frame with a setup field, a second or later one
\* included, starts the injection, and the frame that goes upstream for it once the
\* upstream socket is open is the injected setup under a setup key.
C23_EverySetupRewrapped ==
    [][/\ \A data \in ClientFrames :
            (received'.client = received.client + 1 /\ "setup" \in DOMAIN data
             /\ handleClientMessage(data)) =>
                \E h \in handlers' \ handlers : h.seq = received'.client /\ h.data = data
       /\ \A h \in handlers :
            (h \notin handlers' /\ h.from = "client" /\ upstreamWs.readyState = OPEN) =>
                /\ Len(emitted') = Len(emitted) + 1
                /\ IsInjected(emitted'[Len(emitted')].data)]_vars

\* C23 (amended): every client frame with a setup field, a second or later one
\* included, starts the injection; the frame that goes upstream for it is
\* {setup: ...} with the context block first and the caller's declarations merged
\* with the VCP tools, or the raw frame when the injection raised an exception; one
\* frame goes upstream when the upstream socket is open, none while it connects.
C23_EverySetupIntercepted ==
    [][/\ \A data \in ClientFrames :
            (received'.client = received.client + 1 /\ "setup" \in DOMAIN data
             /\ handleClientMessage(data)) =>
                \E h \in handlers' \ handlers : h.seq = received'.client /\ h.data = data
       /\ \A h \in handlers :
            (h \notin handlers' /\ h.from = "client") =>
                IF upstreamWs.readyState = OPEN
                THEN /\ Len(emitted') = Len(emitted) + 1
                     /\ LET last == emitted'[Len(emitted')] IN
                        /\ last.to = "upstream" /\ last.seq = h.seq
                        /\ IF h.threw THEN last.data = h.data
                           ELSE /\ IsInjected(last.data)
                                /\ Tail(last.data.setup.systemInstruction.parts) =
                                       h.data.setup.systemInstruction.parts
                                /\ last.data.setup.tools.entries =
                                     << [functionDeclarations |->
                                          Flatten(h.data.setup.tools.entries) \o VcpTools] >>
                ELSE emitted' = emitted]_vars

\* the second frame of the client was a setup frame and went upstream injected,
\* after a first one that did
C23_SecondSetupInjected ==
    \E i, j \in InjectedFrames :
        /\ emitted[i].from = "client" /\ emitted[i].seq = 1
        /\ emitted[j].from = "client" /\ emitted[j].seq = 2

\* ================================================ tool lists of the servers
\* SpecTools: distributed servers that send register_tools with different tool
\* lists, one after the other, report a display name, fail and close
ToolLists == {<<>>, <<"toolA">>, <<"internal_request_file", "toolB">>,
              <<"toolA", "internal_request_file">>}
ToolsNext ==
    \/ \E path \in ToolPaths : Upgrade(path) /\ UNCHANGED others
    \/ \E n \in DOMAIN ws :
         \E m \in RegisterFrames(ToolLists) \cup ReportFrames(DisplayNames)
                  \cup {Frame("register_tools", FALSE, NoId, NULL, <<>>, NoId)} :
            OnMessage(n, m) /\ UNCHANGED others
    \/ \E n \in DOMAIN ws : OnError(n) /\ UNCHANGED others
    \/ \E n \in DOMAIN ws : OnClose(n) /\ UNCHANGED others

SpecTools == Started /\ [][ToolsNext]_vars

\* C24: a register_tools message of a distributed server replaces the server's
\* stored tool list by the names of the message's tools without
\* internal_request_file, in their order, and leaves the lists of the other servers
\* alone; internal_request_file is never in the catalog.
C24_ToolListReplaced ==
    /\ []("internal_request_file" \notin DOMAIN catalog)
    /\ [][\A n \in DOMAIN ws : \A list \in ToolLists :
            (/\ lastOp'.op = "message"
             /\ OnMessage(n, Frame("register_tools", TRUE, NoId, NULL, list, NoId))) =>
                LET NotReserved(t) == t # "internal_request_file" IN
                /\ distributedServers'[ServerId(n)].tools = SelectSeq(list, NotReserved)
                /\ \A s \in DOMAIN distributedServers \ {ServerId(n)} :
                      distributedServers'[s] = distributedServers[s]]_vars

\* a server that had registered toolA (it still owns it in the catalog) has sent a
\* later list, and its stored list is that later list without the reserved name
C24_LaterListStored ==
    \E s \in DOMAIN distributedServers :
        /\ distributedServers[s].tools = <<"toolB">>
        /\ "toolA" \in DOMAIN catalog /\ catalog["toolA"] = s

\* ================================================ display names of the servers
\* SpecNames: distributed servers that report display names, new ones after old
\* ones, none at all, or the ID of another server, and tool requests addressed to
\* server IDs and to display names
ReportedNames == {<<"name", 1>>, <<"name", 2>>, NoId, ServerId(1)}
NameArgs == {ServerId(n) : n \in 1..MaxSockets} \cup {<<"name", 1>>, <<"name", 2>>}
NamesNext ==
    \/ \E path \in ToolPaths : Upgrade(path) /\ UNCHANGED others
    \/ \E n \in DOMAIN ws : \E m \in ReportFrames(ReportedNames) :
         OnMessage(n, m) /\ UNCHANGED others
    \/ \E s \in NameArgs :
         executeDistributedTool(s, "toolA", 0, 10000) /\ UNCHANGED others

SpecNames == Started /\ [][NamesNext]_vars

\* the servers that carry display name nm
Carrying(nm) == {s \in DOMAIN distributedServers : distributedServers[s].serverName = nm}

\* C25: the display name of a server is the serverName of its most recent report_ip
\* (its server ID when the report had none) and nothing else changes it;
\* executeDistributedTool sends its one execute_tool frame to the server with the
\* given ID when there is one, else to a server that carries the argument as display
\* name, and is rejected without a frame when there is none.
C25_ResolvedByIdThenName ==
    [][/\ \A n \in DOMAIN ws : \A nm \in ReportedNames :
            (/\ lastOp'.op = "message"
             /\ OnMessage(n, Frame("report_ip", TRUE, NoId, NULL, <<>>, nm))) =>
                distributedServers'[ServerId(n)].serverName =
                    IF nm = NoId THEN ServerId(n) ELSE nm
       /\ lastOp'.op # "message" =>
             \A s \in DOMAIN distributedServers :
                 distributedServers'[s].serverName = distributedServers[s].serverName
       /\ \A s \in NameArgs :
            (/\ lastOp'.op = "executeDistributedTool"
             /\ executeDistributedTool(s, "toolA", 0, 10000)) =>
                IF s \in DOMAIN distributedServers
                THEN /\ Len(sent') = 1
                     /\ sent'[1].frame.type = "execute_tool"
                     /\ ServerId(sent'[1].to) = s
                ELSE IF Carrying(s) # {}
                THEN /\ Len(sent') = 1
                     /\ sent'[1].frame.type = "execute_tool"
                     /\ ServerId(sent'[1].to) \in Carrying(s)
                ELSE /\ sent' = <<>>
                     /\ lastOp'.result = "rejected"]_vars

\* a request went to the second server, which carries a display name, while the
\* first server carries the other name
C25_SentToNamedServer ==
    /\ lastOp.op = "executeDistributedTool"
    /\ lastOp.result = "pending"
    /\ Len(sent) = 1 /\ sent[1].to = 2
    /\ ServerId(1) \in DOMAIN distributedServers
    /\ distributedServers[ServerId(1)].serverName = <<"name", 2>>
    /\ distributedServers[ServerId(2)].serverName = <<"name", 1>>

\* ======================================================= timeouts of requests
\* SpecTimeouts: tool requests and Chrome commands with and without a timeout
\* argument, for tools whose manifest declares a timeout or none, no reply coming
\* and the clock advancing to the deadlines
ManifestTimeouts == {0, 3000}
CallTimeouts == {NoTimeout, 5000}
TimeoutsNext ==
    \/ \E path \in RpcPaths : Upgrade(path) /\ UNCHANGED others
    \/ \E timeout \in CallTimeouts :
         sendCommandToChrome(NoId, timeout) /\ UNCHANGED others
    \/ \E manifestTimeout \in ManifestTimeouts, timeout \in CallTimeouts :
         executeDistributedTool(ServerId(1), "toolA", manifestTimeout, timeout)
         /\ UNCHANGED others
    \/ \E k \in DOMAIN calls : TimerExpire(k) /\ UNCHANGED others
    \/ Tick /\ UNCHANGED others

SpecTimeouts == Started /\ [][TimeoutsNext]_vars

\* the request registered by the step
NewRequests == {calls'[k] : k \in DOMAIN calls' \ DOMAIN calls}

\* C26: the timer of a tool request is armed with the timeout argument when one is
\* given, else with the timeout the tool's manifest declares, else with 60000 ms;
\* that of a Chrome command with the timeout argument, else with 10000 ms; a request
\* is rejected with the timeout error only once that time has passed since it was
\* registered.
C26_ArmedTimeout ==
    [][/\ \A manifestTimeout \in ManifestTimeouts, timeout \in CallTimeouts :
            (/\ lastOp'.op = "executeDistributedTool" /\ lastOp'.result = "pending"
             /\ executeDistributedTool(ServerId(1), "toolA", manifestTimeout, timeout)) =>
                \A c \in NewRequests :
                    c.deadline - now = IF timeout # NoTimeout THEN timeout
                                       ELSE IF manifestTimeout # 0 THEN manifestTimeout
                                       ELSE 60000
       /\ \A timeout \in CallTimeouts :
            (/\ lastOp'.op = "sendCommandToChrome" /\ lastOp'.result = "pending"
             /\ sendCommandToChrome(NoId, timeout)) =>
                \A c \in NewRequests :
                    c.deadline - now = IF timeout # NoTimeout THEN timeout ELSE 10000
       /\ lastOp'.op \in {"executeDistributedTool", "sendCommandToChrome"}
             /\ lastOp'.result = "pending" => Cardinality(NewRequests) = 1
       /\ lastOp'.op = "timeout" =>
             \A k \in DOMAIN calls \ DOMAIN calls' :
                 /\ now' >= calls[k].deadline
                 /\ lastOp'.settled.requestId = calls[k].requestId
       /\ \A k \in DOMAIN calls \cap DOMAIN calls' :
             calls'[k].requestId = calls[k].requestId =>
                 calls'[k].deadline = calls[k].deadline]_vars

\* a tool request that gave no timeout, for a tool without a declared one, was
\* rejected by its timer after 60000 ms
C26_DefaultTimeoutElapsed ==
    /\ lastOp.op = "timeout"
    /\ lastOp.settled.chan = "tool"
    /\ lastOp.settled.seconds = 60
    /\ now = 60000

\* the servers that own a tool of the catalog
Owners == {catalog[t] : t \in DOMAIN catalog}

\* C27: no tool of the catalog is owned by a server that is not in the registry of
\* distributed servers: the step in which a server's socket emits 'close' removes
\* its tools from the catalog, its registry entry and its IP record together, and
\* leaves the tools of the other servers in the catalog.
C27_NoToolOfAbsentServer ==
    /\ [](Owners \subseteq DOMAIN distributedServers)
    /\ [][lastOp'.op = "close" =>
            \A s \in DOMAIN distributedServers \ DOMAIN distributedServers' :
                /\ s \notin Owners'
                /\ s \notin DOMAIN distributedServerIPs'
                /\ \A t \in DOMAIN catalog :
                      catalog[t] # s => t \in DOMAIN catalog' /\ catalog'[t] = catalog[t]]_vars

\* a server that had registered tools and reported its IP has closed while another
\* server owns a tool of the catalog
C27_OneOfTwoServersClosed ==
    /\ lastOp.op = "close"
    /\ lastOp.closed.tools # <<>>
    /\ TruthyId(lastOp.closed.serverName)
    /\ Owners # {}

\* ================================================ frames of browser observers
\* SpecObserver: a browser observer and a distributed server with Chrome commands
\* and tool requests pending, and frames of every type arriving, with and without
\* a request ID
ObserverFrames == ReplyFrames(ReplyIds \cup {NoId}) \cup OtherFrames \cup BadFrames
ObserverNext ==
    \/ \E path \in RpcPaths : Upgrade(path) /\ UNCHANGED others
    \/ \E n \in DOMAIN ws : \E m \in ObserverFrames : OnMessage(n, m) /\ UNCHANGED others
    \/ \E id \in CallerIds \cup {NoId} : sendCommandToChrome(id, NoTimeout) /\ UNCHANGED others
    \/ executeDistributedTool(ServerId(1), "toolA", 0, 10000) /\ UNCHANGED others

SpecObserver == Started /\ [][ObserverNext]_vars

\* C28: on a browser observer's connection, a command_result frame that carries a
\* request ID is not handed to the ChromeObserver module; when pendingChromeCommands
\* has an entry for the ID, the entry is removed and its promise resolved on status
\* 'success', rejected otherwise, and nothing else changes.  Every other frame that
\* parses is handed to the module with the sender's connection ID, and changes
\* neither pending table nor any promise.
C28_ObserverFrames ==
    [][lastOp'.op = "message" =>
       \A n \in {x \in DOMAIN ws : ws[x].clientType = "ChromeObserver"} :
       \A m \in {x \in ObserverFrames : x.requestId = lastOp'.requestId} :
          OnMessage(n, m) =>
             IF m.parsed /\ m.type = "command_result" /\ m.hasData /\ m.requestId # NoId
             THEN /\ "clientId" \notin DOMAIN lastOp'
                  /\ pendingToolRequests' = pendingToolRequests
                  /\ IF m.requestId \in DOMAIN pendingChromeCommands
                     THEN /\ DOMAIN pendingChromeCommands' =
                                 DOMAIN pendingChromeCommands \ {m.requestId}
                          /\ lastOp'.settled.requestId = m.requestId
                          /\ lastOp'.settled.chan = "chrome"
                          /\ lastOp'.settled.outcome =
                                 IF m.status = "success" THEN "resolved" ELSE "rejected"
                          /\ DOMAIN calls' =
                                 DOMAIN calls \ {pendingChromeCommands[m.requestId]}
                     ELSE /\ UNCHANGED <<tables, calls>>
                          /\ lastOp'.settled = NoSettlement
             ELSE /\ UNCHANGED <<tables, calls>>
                  /\ lastOp'.settled = NoSettlement
                  /\ IF m.parsed
                     THEN "clientId" \in DOMAIN lastOp' /\ lastOp'.clientId = ClientId(n)
                     ELSE "clientId" \notin DOMAIN lastOp']_vars

\* a frame without a request ID was handed to the module while a Chrome command and
\* a tool request are pending
C28_ForwardedWhilePending ==
    /\ lastOp.op = "message"
    /\ lastOp.outcome = "forwarded"
    /\ lastOp.requestId = NoId
    /\ DOMAIN pendingChromeCommands # {}
    /\ DOMAIN pendingToolRequests # {}

\* ======================================================= frames of log clients
\* SpecLog: log clients next to a distributed server or a browser observer with
\* requests pending; every connection sends frames of every type, replies that
\* carry the ID of a pending request included
LogPaths == {p \in Paths : p.key = SecretKey /\ PathClientType(p) # NULL}
LogFrames == ReplyFrames(ReplyIds) \cup RegisterFrames({<<"toolA">>})
             \cup ReportFrames(DisplayNames) \cup BadFrames
LogNext ==
    \/ \E path \in LogPaths : Upgrade(path) /\ UNCHANGED others
    \/ \E n \in DOMAIN ws : \E m \in LogFrames : OnMessage(n, m) /\ UNCHANGED others
    \/ sendCommandToChrome(NoId, NoTimeout) /\ UNCHANGED others
    \/ executeDistributedTool(ServerId(1), "toolA", 0, 10000) /\ UNCHANGED others

SpecLog == Started /\ [][LogNext]_vars

Acks(frames) == {i \in DOMAIN frames : frames[i].frame.type = "connection_ack"}

\* C29: the step that connects a log client sends it one connection_ack frame and
\* nothing else; the step that connects a client of another type sends no frame, and
\* no other step sends a connection_ack.  A frame that a log client sends changes no
\* registry, no pending table, no promise, neither the catalog nor the IP map, and
\* no frame is sent.
C29_LogClientChannel ==
    [][/\ \A n \in DOMAIN ws' \ DOMAIN ws :
            IF ws'[n].clientType = "VCPLog"
            THEN sent' = <<[to |-> n, frame |-> [type |-> "connection_ack"]]>>
            ELSE sent' = <<>>
       /\ DOMAIN ws' = DOMAIN ws => Acks(sent') = {}
       /\ lastOp'.op = "message" =>
             \A n \in {x \in DOMAIN ws : ws[x].clientType = "VCPLog"} :
             \A m \in {x \in LogFrames : x.requestId = lastOp'.requestId} :
                 OnMessage(n, m) =>
                    /\ UNCHANGED <<registries, tables, calls, catalog, distributedServerIPs>>
                    /\ sent' = <<>>
                    /\ lastOp'.settled = NoSettlement
                    /\ "clientId" \notin DOMAIN lastOp']_vars

\* a log client has sent a tool_result with the request ID of a pending tool
\* request, which is still pending
C29_LogClientReplyIgnored ==
    /\ lastOp.op = "message"
    /\ lastOp.outcome = "ignored"
    /\ lastOp.requestId \in DOMAIN pendingToolRequests
    /\ \E n \in DOMAIN ws : ws[n].clientType = "VCPLog"

\* ==================================================== the sender of a reply
\* SpecReplies: two peers (servers, observers) connected; tool requests go to the
\* first server and Chrome commands to the first observer; every peer sends replies
\* with the IDs of the pending requests, and peers close
RepliesNext ==
    \/ \E path \in RpcPaths : Upgrade(path) /\ UNCHANGED others
    \/ \E n \in DOMAIN ws : \E m \in ReplyFrames(ReplyIds) :
         OnMessage(n, m) /\ UNCHANGED others
    \/ \E n \in DOMAIN ws : OnClose(n) /\ UNCHANGED others
    \/ sendCommandToChrome(NoId, NoTimeout) /\ UNCHANGED others
    \/ executeDistributedTool(ServerId(1), "toolA", 0, 10000) /\ UNCHANGED others

SpecReplies == Started /\ [][RepliesNext]_vars

\* C30: a tool_result from any connected distributed server, whichever server the
\* request was sent to, settles the pending tool request with its request ID and
\* removes the entry; a command_result from any browser observer does so for the
\* pending Chrome command with its request ID.
C30_AnyPeerSettles ==
    [][lastOp'.op = "message" =>
       \A n \in DOMAIN ws :
       \A m \in {x \in ReplyFrames(ReplyIds) : x.requestId = lastOp'.requestId} :
          OnMessage(n, m) =>
             LET settles ==
                     /\ lastOp'.settled.requestId = m.requestId
                     /\ lastOp'.settled.outcome =
                            IF m.status = "success" THEN "resolved" ELSE "rejected" IN
             /\ (/\ ws[n].clientType = "DistributedServer"
                 /\ m.type = "tool_result"
                 /\ m.requestId \in DOMAIN pendingToolRequests) =>
                     /\ m.requestId \notin DOMAIN pendingToolRequests'
                     /\ pendingToolRequests[m.requestId] \notin DOMAIN calls'
                     /\ settles
             /\ (/\ ws[n].clientType = "ChromeObserver"
                 /\ m.type = "command_result"
                 /\ m.requestId \in DOMAIN pendingChromeCommands) =>
                     /\ m.requestId \notin DOMAIN pendingChromeCommands'
                     /\ pendingChromeCommands[m.requestId] \notin DOMAIN calls'
                     /\ settles]_vars

\* a tool request, sent to the first server, was settled by a tool_result after the
\* first server had closed: the reply came from the second server
C30_SettledByOtherServer ==
    /\ lastOp.op = "message"
    /\ lastOp.outcome = "settled"
    /\ lastOp.settled.chan = "tool"
    /\ ServerId(1) \notin DOMAIN distributedServers
    /\ ServerId(2) \in DOMAIN distributedServers

\* ==================================================== upstream frames without calls
\* SpecForward: the frames of the upstream socket of a session from its creation:
\* frames that do not parse, the JSON text null, frames without toolCall, a toolCall
\* without functionCalls or with none, and batches; the client may have closed before
\* the upstream socket opens
ForwardFrames ==
    UpstreamFrames
    \cup {[toolCall |-> [thought |-> "t"]], [string |-> "text"], [value |-> NULL]}
ForwardNext ==
    \/ UpstreamOpen
    \/ \E data \in ForwardFrames : handleUpstreamMessage(data)
    \/ \E h \in handlers, outcome \in ToolOutcomes :
         \E i \in h.running : ToolCallReturns(h, i, outcome)
    \/ ClientClose(1000, "")

SpecForward == NewSession /\ [][ForwardNext]_vars

\* the frame holds no call to execute
WithoutCalls(data) ==
    \/ "toolCall" \notin DOMAIN data
    \/ "functionCalls" \notin DOMAIN data.toolCall
    \/ data.toolCall.functionCalls = <<>>

\* C31: the handler of an upstream frame that does not parse, has no toolCall, or
\* whose toolCall has no functionCalls or an empty list, calls clientWs.send once
\* with the frame as it arrived (an open client socket takes it, a closed one
\* discards it), suspends nothing and sends nothing upstream; the frame is never
\* sent a second time.
C31_FrameWithoutCallsForwarded ==
    /\ [][received'.upstream = received.upstream + 1 =>
            \A data \in ForwardFrames :
               (handleUpstreamMessage(data) /\ WithoutCalls(data)) =>
                  /\ handlers' = handlers
                  /\ rejected' = rejected
                  /\ IF clientWs.readyState = OPEN
                     THEN Sends([to |-> "client", from |-> "upstream",
                                 seq |-> received'.upstream, data |-> data])
                     ELSE emitted' = emitted]_vars
    /\ [](\A i \in 1..Len(emitted) :
            (emitted[i].from = "upstream" /\ emitted[i].to = "client") =>
                /\ WithoutCalls(emitted[i].data)
                /\ EmittedBy("upstream", emitted[i].seq) = {i})

\* C31 is exercised: a frame that does not parse and a toolCall without functionCalls
\* have been forwarded to the client
C31_RawAndEmptyForwarded ==
    /\ Len(emitted) = 2
    /\ emitted[1].to = "client" /\ emitted[1].data = [bytes |-> "audio"]
    /\ emitted[2].to = "client" /\ emitted[2].data = [toolCall |-> [thought |-> "t"]]

\* ==================================================== the injection transform
\* SpecSetup: setup frames of the client of an open session; the setup objects have
\* other fields, a systemInstruction with parts, without parts or none, and tools
\* that are absent, an array with entries of function declarations and an entry of
\* another kind, or (a caller's mistake) one object
OtherFields ==
    {[model |-> "m"], [generationConfig |-> "g", realtimeInputConfig |-> "r"]}
SystemInstructionFields ==
    {EmptyMap, [systemInstruction |-> [parts |-> <<"p1", "p2">>]],
     [systemInstruction |-> [role |-> "system"]]}
ToolsFields ==
    {EmptyMap, [tools |-> [entries |-> <<>>]],
     [tools |-> [entries |-> << [functionDeclarations |-> <<"f1", "f2">>],
                                [googleSearch |-> TRUE],
                                [functionDeclarations |-> <<"f3">>] >>]],
     [tools |-> [functionDeclarations |-> <<"f1">>]]}
SetupObjects ==
    {o @@ si @@ t : o \in OtherFields, si \in SystemInstructionFields, t \in ToolsFields}
SetupNext ==
    \/ \E st \in SetupObjects : handleClientMessage([setup |-> st])
    \/ \E h \in handlers : SetupContinues(h)

SpecSetup == OpenSession /\ [][SetupNext]_vars

InjectedFields == {"systemInstruction", "tools"}

\* C32: the setup sent upstream for a setup frame has the fields of the caller's
\* setup object and, when the injection completed, systemInstruction and tools; every
\* field other than these two has the value the caller gave it.
C32_OtherFieldsPassThrough ==
    [][\A h \in handlers :
          (h \notin handlers' /\ h.from = "client") =>
              /\ Len(emitted') = Len(emitted) + 1
              /\ LET data == emitted'[Len(emitted')].data IN
                 /\ DOMAIN data = {"setup"}
                 /\ DOMAIN data.setup =
                        IF h.threw THEN DOMAIN h.data.setup
                        ELSE DOMAIN h.data.setup \cup InjectedFields
                 /\ \A f \in DOMAIN h.data.setup \ InjectedFields :
                       data.setup[f] = h.data.setup[f]]_vars

\* C32 is exercised: a setup without systemInstruction and tools went upstream with
\* its two other fields and the two injected ones
C32_TwoFieldsKept ==
    \E i \in 1..Len(emitted) :
        /\ DOMAIN emitted[i].data = {"setup"}
        /\ DOMAIN emitted[i].data.setup =
               {"generationConfig", "realtimeInputConfig"} \cup InjectedFields
        /\ emitted[i].data.setup.generationConfig = "g"
        /\ emitted[i].data.setup.realtimeInputConfig = "r"
        /\ Head(emitted[i].data.setup.systemInstruction.parts) = VcpPrompt

\* the declarations of the registry plugins that convert and are not on the deny-list
Exposed(manifest) ==
    /\ manifest.name \notin {"VCPLog", "WeatherReporter"}
    /\ convertManifestToTool(manifest) # <<>>
ExposedPlugins ==
    LET exposed == SelectSeq(PluginRegistry, Exposed) IN
    [k \in 1..Len(exposed) |-> exposed[k].name]

\* the tools of a setup sent upstream are one entry whose functionDeclarations are
\* the function declarations of the caller's entries in their order, then those of
\* the exposed plugins in registry order, then search_memory, then
\* perform_meta_thinking
MergedFrom(callerSetup, tools) ==
    /\ DOMAIN tools = {"entries"}
    /\ Len(tools.entries) = 1
    /\ DOMAIN tools.entries[1] = {"functionDeclarations"}
    /\ tools.entries[1].functionDeclarations =
           Flatten(IF "tools" \in DOMAIN callerSetup
                   THEN callerSetup.tools.entries ELSE <<>>)
               \o ExposedPlugins \o <<"search_memory", "perform_meta_thinking">>

\* C33 (as stated): the tools field sent upstream for a setup frame is always the
\* single merged entry.
C33_ToolsAlwaysMerged ==
    [][\A h \in handlers :
          (h \notin handlers' /\ h.from = "client") =>
              /\ "tools" \in DOMAIN emitted'[Len(emitted')].data.setup
              /\ MergedFrom(h.data.setup, emitted'[Len(emitted')].data.setup.tools)]_vars

\* C33 (amended): the tools sent upstream for a setup frame whose injection completed
\* are one entry whose functionDeclarations are the function declarations of the
\* caller's tools entries in their order, then the declarations of the registry
\* plugins that convert and are not VCPLog or WeatherReporter, in registry order,
\* then search_memory, then perform_meta_thinking; when the injection raised an
\* exception (the caller's tools are not an array), the frame goes upstream as it
\* arrived, with the caller's tools alone.
C33_MergedDeclarations ==
    [][\A h \in handlers :
          (h \notin handlers' /\ h.from = "client") =>
              IF h.threw
              THEN emitted'[Len(emitted')].data = h.data
              ELSE MergedFrom(h.data.setup, emitted'[Len(emitted')].data.setup.tools)]_vars

\* C33 is exercised: the declarations of two caller entries went upstream before
\* those of the two exposed plugins and the two virtual tools
C33_CallerThenPlugins ==
    \E i \in 1..Len(emitted) :
        /\ DOMAIN emitted[i].data = {"setup"}
        /\ emitted[i].data.setup.tools.entries[1].functionDeclarations =
               <<"f1", "f2", "f3", "DailyNoteWrite", "TavilySearch",
                 "search_memory", "perform_meta_thinking">>

\* ==================================================== no shared secret
\* C34: while the configured key is null or empty, every upgrade request is refused
\* (the socket is destroyed, no ID is generated, no registry changes), whatever its
\* path and key, so that no socket is registered in any registry.
C34_NoSecretNoConnection ==
    /\ [](~Truthy(vcpKey) =>
            /\ ws = EmptyMap /\ clients = EmptyMap
            /\ distributedServers = EmptyMap /\ chromeObserverClients = EmptyMap
            /\ nextId = 1)
    /\ [][(lastOp'.op = "upgrade" /\ ~Truthy(vcpKey)) =>
            /\ lastOp'.result = "destroyed"
            /\ sent' = <<>>
            /\ UNCHANGED <<nextId, ws, registries>>]_vars

\* C34 is exercised: the server was initialized with an empty key, the plugin manager
\* is set, and an upgrade request has been refused
C34_RefusedWithoutSecret ==
    /\ wssInstance /\ vcpKey = "" /\ pluginManager = "set"
    /\ lastOp.op = "upgrade" /\ lastOp.result = "destroyed"

\* ==================================================== commands sharing a request ID
\* the pending Chrome command in slot j owns the entry of its request ID
OwnsEntry(table, j) ==
    /\ j \in DOMAIN calls /\ calls[j].chan = "chrome"
    /\ calls[j].requestId \in DOMAIN table
    /\ table[calls[j].requestId] = j

\* C35 (as stated): the timer of one Chrome command removes no entry but its own: a
\* command that is still pending after the timer of another command has run, and
\* that owned the entry of its request ID before, owns it afterwards, so that its
\* own reply or its own timer settles it.
C35_TimerLeavesOtherEntries ==
    [][lastOp'.op = "timeout" =>
          \A j \in DOMAIN calls' :
              OwnsEntry(pendingChromeCommands, j) =>
                  /\ calls[j].requestId \in DOMAIN pendingChromeCommands'
                  /\ pendingChromeCommands'[calls[j].requestId] = j]_vars

\* ==================================================== requests of a peer that closes
\* SpecOrphans: a distributed server or a browser observer with requests sent to it,
\* its replies, its 'close', the clock and the timers; time passes and a timer whose
\* deadline is reached runs its callback (the event loop runs every due timer)
OrphansNext ==
    \/ \E path \in RpcPaths : Upgrade(path) /\ nextId <= MaxPeers /\ UNCHANGED others
    \/ \E n \in DOMAIN ws : \E m \in ReplyFrames(ReplyIds) :
         OnMessage(n, m) /\ UNCHANGED others
    \/ \E n \in DOMAIN ws : OnClose(n) /\ UNCHANGED others
    \/ sendCommandToChrome(NoId, NoTimeout) /\ UNCHANGED others
    \/ executeDistributedTool(ServerId(1), "toolA", 0, 10000) /\ UNCHANGED others
    \/ \E k \in DOMAIN calls : TimerExpire(k) /\ UNCHANGED others
    \/ Tick /\ UNCHANGED others

SpecOrphans ==
    /\ Started
    /\ [][OrphansNext]_vars
    /\ WF_vars(Tick /\ UNCHANGED others)
    /\ \A k \in 1..MaxCalls : WF_vars(TimerExpire(k) /\ UNCHANGED others)

\* C36: the 'close' of a peer settles no request: the step leaves both pending
\* tables and the pending promises with their timers as they are; a pending promise
\* is settled only by a reply frame or by its timer, which rejects it with the
\* timeout error and removes the entry of its request ID; and every entry of either
\* table is eventually removed.
C36_CloseLeavesRequestsToTimer ==
    /\ [][lastOp'.op = "close" => UNCHANGED <<tables, calls, settledIds>>]_vars
    /\ [][\A k \in DOMAIN calls : k \notin DOMAIN calls' =>
             \/ lastOp'.op = "message" /\ lastOp'.outcome = "settled"
             \/ /\ lastOp'.op = "timeout"
                /\ lastOp'.settled.requestId = calls[k].requestId
                /\ lastOp'.settled.outcome = "rejected"
                /\ lastOp'.settled.error = "timeout"
                /\ calls[k].requestId \notin DOMAIN pendingToolRequests'
                /\ calls[k].requestId \notin DOMAIN pendingChromeCommands']_vars
    /\ \A id \in GeneratedIds :
          /\ (id \in DOMAIN pendingToolRequests) ~> (id \notin DOMAIN pendingToolRequests)
          /\ (id \in DOMAIN pendingChromeCommands) ~> (id \notin DOMAIN pendingChromeCommands)

\* C36 is exercised: a Chrome command was rejected by its timer after the browser
\* observer it was sent to had closed
C36_TimedOutAfterClose ==
    /\ lastOp.op = "timeout"
    /\ lastOp.settled.chan = "chrome"
    /\ lastOp.settled.outcome = "rejected"
    /\ lastOp.settled.error = "timeout"
    /\ ws = EmptyMap

\* ==================================================== the IP map
\* report_ip frames whose data carry a public IP or local IPs next to the name
Ips == {"10.0.0.1", "8.8.8.8"}
IpReportFrames ==
    {Frame("report_ip", TRUE, NoId, NULL, <<>>, nm) @@ [publicIP |-> ip] :
        nm \in DisplayNames \cup {NoId}, ip \in Ips}
    \cup {Frame("report_ip", TRUE, NoId, NULL, <<>>, nm) @@ [localIPs |-> <<ip>>] :
        nm \in DisplayNames, ip \in Ips}
\* findServerByIp(ip): the name of a record whose public IP or local IPs match, or
\* the record's key when the name is empty; the records are searched in Map order,
\* and the operator gives the result for every record that matches
findServerByIp(ip) ==
    {IF TruthyId(distributedServerIPs[s].serverName)
     THEN distributedServerIPs[s].serverName ELSE s :
        s \in {x \in DOMAIN distributedServerIPs :
                 \/ distributedServerIPs[x].publicIP = ip
                 \/ ip \in Range(distributedServerIPs[x].localIPs)}}

\* SpecIps: distributed servers and browser observers that connect, report IPs and
\* names, send frames without data, fail and close
IpsNext ==
    \/ \E path \in RpcPaths : Upgrade(path) /\ UNCHANGED others
    \/ \E n \in DOMAIN ws : \E m \in IpReportFrames \cup BadFrames :
         OnMessage(n, m) /\ UNCHANGED others
    \/ \E n \in DOMAIN ws : OnError(n) /\ UNCHANGED others
    \/ \E n \in DOMAIN ws : OnClose(n) /\ UNCHANGED others

SpecIps == Started /\ [][IpsNext]_vars

\* C37: the keys of the IP map are keys of the distributed-server registry; a record
\* is added only by a report_ip frame on the connection of the server it is keyed by
\* and is removed by that server's 'close'; whatever findServerByIp returns is the
\* display name, or the ID, of a registered server.
C37_IpRecordsOfRegisteredServers ==
    /\ [](/\ DOMAIN distributedServerIPs \subseteq DOMAIN distributedServers
          /\ \A ip \in Ips : \A name \in findServerByIp(ip) :
                \E s \in DOMAIN distributedServers :
                    /\ distributedServers[s].ws \in DOMAIN ws
                    /\ name \in {s, distributedServers[s].serverName})
    /\ [][\A s \in DOMAIN distributedServerIPs' \ DOMAIN distributedServerIPs :
            /\ lastOp'.op = "message"
            /\ s \in DOMAIN distributedServers
            /\ \E m \in IpReportFrames : OnMessage(distributedServers[s].ws, m)]_vars
    /\ [][\A s \in DOMAIN distributedServerIPs \ DOMAIN distributedServerIPs' :
            lastOp'.op = "close" /\ s \notin DOMAIN distributedServers']_vars

\* C37 is exercised: the first of two servers that had reported their IPs has
\* closed, and the IP map holds the record of the second alone, found by its IP
C37_RecordOfClosedServerGone ==
    /\ lastOp.op = "close"
    /\ lastOp.closed.serverName # NoId
    /\ DOMAIN distributedServerIPs = {ServerId(2)}
    /\ DOMAIN distributedServers = {ServerId(2)}
    /\ findServerByIp("8.8.8.8") # {}
    /\ nextId = 3

\* ==================================================== no buffering in the session
\* C38: the session keeps no client frame for later: a frame goes upstream only in
\* a step of its own handler (the step that handles it, or for a setup frame the
\* step that continues after the injection) and only to an open upstream socket;
\* when the handler's send finds the socket connecting, the send throws and the
\* frame is never sent afterwards; nothing is sent while the socket connects, and
\* the socket's 'open' sends nothing.
C38_NoBuffering ==
    /\ [](\A seq \in 1..received.client :
             <<"client", seq>> \in rejected => EmittedBy("client", seq) = {})
    /\ [](upstreamWs.readyState = CONNECTING => emitted = <<>>)
    /\ [][emitted' # emitted =>
            /\ upstreamWs.readyState = OPEN
            /\ Len(emitted') = Len(emitted) + 1
            /\ SubSeq(emitted', 1, Len(emitted)) = emitted
            /\ LET e == emitted'[Len(emitted')] IN
               /\ e.to = "upstream" /\ e.from = "client"
               /\ \/ received'.client = received.client + 1 /\ e.seq = received'.client
                  \/ \E h \in handlers \ handlers' : h.from = "client" /\ h.seq = e.seq]_vars
    /\ [][(upstreamWs.readyState = CONNECTING /\ rejected' = rejected) =>
             /\ emitted' = emitted
             /\ handlers \subseteq handlers'
             /\ \/ received' = received
                \/ \E h \in handlers' \ handlers : h.seq = received'.client]_vars

\* C38 is exercised: the first frame of the client was handled while the upstream
\* socket was connecting and is not among the frames sent; the second, handled after
\* the socket had opened, is
C38_FirstFrameLost ==
    /\ upstreamWs.readyState = OPEN
    /\ <<"client", 1>> \in rejected
    /\ EmittedBy("client", 1) = {}
    /\ EmittedBy("client", 2) # {}

\* ==================================================== the worker pool
\* SpecEmbedFair: SpecEmbed where every request of a worker settles (C40: _sendBatch
\* ends after at most three attempts) and Promise.all resolves when the workers left
SpecEmbedFair ==
    /\ Started
    /\ [][EmbedNext]_vars
    /\ \A w \in 1..DEFAULT_CONCURRENCY : WF_vars(\E api \in AttemptOutcomes : BatchSettles(w, api))
    /\ WF_vars(AllWorkersDone)

\* the workers that await a batch, and the batches taken so far
Busy == {w \in DOMAIN workers : workers[w] # 0}
Claimed == {b \in 1..Len(batches) : b <= cursor}

\* C39: every batch taken is awaited by exactly one worker or has its result, never
\* both, and the batches are taken in order without a gap; at most
\* DEFAULT_CONCURRENCY batches are awaited at a time; a result is stored once, at the
\* index of the batch the worker awaited, with the batch's original indices, and
\* never changes; a worker that finds no batch left leaves its loop; and once the
\* call has started its workers it returns, whether batches succeed or fail.
C39_WorkerPool ==
    /\ [](returned.state = "pending" =>
            /\ \A b \in Claimed :
                  Cardinality({w \in Busy : workers[w] = b}) =
                     IF b \in DOMAIN batchResults THEN 0 ELSE 1
            /\ \A w \in Busy : workers[w] \in Claimed
            /\ DOMAIN batchResults \subseteq Claimed
            /\ Cardinality(Busy) <= DEFAULT_CONCURRENCY
            /\ \A b \in DOMAIN batchResults :
                  batchResults[b].originalIndices = batches[b].originalIndices
            /\ (cursor >= Len(batches) + DEFAULT_CONCURRENCY) => Busy = {})
    /\ [][batchResults' # batchResults =>
            \E w \in Busy :
                /\ workers[w] \notin DOMAIN batchResults
                /\ DOMAIN batchResults' = DOMAIN batchResults \cup {workers[w]}
                /\ \A b \in DOMAIN batchResults : batchResults'[b] = batchResults[b]
                /\ workers'[w] = IF cursor < Len(batches) THEN cursor + 1 ELSE 0
                /\ \A v \in DOMAIN workers \ {w} : workers'[v] = workers[v]]_vars
    /\ (returned.state = "pending") ~> (returned.state = "resolved" /\ Busy = {})

\* C39 is exercised: three batches were prepared for two workers, the third was
\* taken by the worker whose batch failed first, and the call has returned
C39_ThirdBatchTaken ==
    /\ returned.state = "resolved"
    /\ Len(batches) = 3
    /\ DOMAIN batchResults = 1..3
    /\ batchResults[1].vectors = Null
    /\ batchResults[3].vectors # Null
    /\ cursor = 3 + DEFAULT_CONCURRENCY


\* ---------------------------------------------------------------------------
\* C40: how _sendBatch ends
\* ---------------------------------------------------------------------------
\* the worker stored what _sendBatch returned (no error field) or the failure
\* record of its catch block (with the error message)
Returned(b) == "error" \notin DOMAIN batchResults[b]
\* C40: every call of _sendBatch ends by returning the embeddings of the batch or
\* by throwing: the result a worker stores for a batch holds vectors, or it is the
\* failure record written when the call threw
C40_EmbeddingsOrThrown ==
    \A b \in DOMAIN batchResults :
        Returned(b) => batchResults[b].vectors # Null
\* a call that was answered 429 at its last attempt has returned without vectors
C40_ReturnedNothing ==
    \E b \in DOMAIN batchResults :
        Returned(b) /\ batchResults[b].vectors = Null
====
